---- MODULE Spec2Model ----
(***************************************************************************)
(* Model of the intake pipeline of CIRED/cired.digital: the catalog        *)
(* preparation (prepare_catalog.py, pc2.py), the upload of local PDF files *)
(* to the remote document store (push.py) and the deletion of orphaned or  *)
(* misdescribed remote documents (cull.py, align_metadata.py).             *)
(*                                                                         *)
(* Text values are tuples of string tokens, so that the string operations  *)
(* of the code (replace, suffix, concatenation) are computed.  Python None *)
(* and pandas NaN are the token tuple NoneT.  A raw catalog value is a     *)
(* record [list, items]: a JSON string has list = FALSE and one item, a    *)
(* JSON list has list = TRUE and its items.                                *)
(***************************************************************************)
EXTENDS Integers, Sequences, FiniteSets, TLC

VARIABLES
    catalog,        \* publications of the catalog file, in file order
    localFiles,     \* files of the documents directory
    remote,         \* documents of the remote store
    pc,             \* position of the running script
    args,           \* command line of the running script
    snapshot,       \* remote inventory read at the start of the run
    pdf_files,      \* upload_pdfs: candidate files
    idx,            \* loop index of upload_pdfs / of the delete loop
    success_count,  \* upload_pdfs
    skipped_count,  \* upload_pdfs
    failed_files,   \* upload_pdfs
    to_process,     \* cull.main: documents selected for deletion
    delete_count,   \* cull.main
    exit_code,      \* return value of the last finished main()
    calls,          \* remote calls issued by the current run, in order
    nruns,          \* number of runs started
    hist,           \* what the last push run created and the last cull run deleted
    docs,           \* prepare_catalog: raw HAL records
    prepared,       \* prepare_catalog: result of process_publications
    inventory,      \* push.py: result of establish_available_documents
    diffs,          \* cull.py: result of needs_metadata_update for the stored pair
    catalog_file,   \* state of the catalog file the scripts are given
    reads,          \* health, list and export requests of the current run, in order
    pager,          \* a pagination loop: its locals, the requests made, the result
    fetch,          \* utils.get_existing_documents: exported rows and the result
    download,       \* download.process_downloads: its locals and the attempts made
    uploads,        \* upload_pdfs of the four push scripts: inputs and create calls
    evaluated       \* a function called on its own: its name and returned value

syncVars == <<catalog, localFiles, remote, pc, args, snapshot, pdf_files, idx,
              success_count, skipped_count, failed_files, to_process,
              delete_count, exit_code, calls, nruns, hist>>
prepVars == <<docs, prepared>>
toolVars == <<fetch, download, uploads, evaluated>>
auxVars == <<inventory, diffs, catalog_file, reads, pager, fetch, download, uploads, evaluated>>
vars == <<catalog, localFiles, remote, pc, args, snapshot, pdf_files, idx,
          success_count, skipped_count, failed_files, to_process,
          delete_count, exit_code, calls, nruns, hist, docs, prepared,
          inventory, diffs, catalog_file, reads, pager, fetch, download, uploads, evaluated>>

-----------------------------------------------------------------------------
(* Bounds of the model.                                                    *)
MaxBudget == 2
MaxRuns == 2
MaxDocs == 2

(* Program constant: config.MAX_FILE_SIZE.                                 *)
MAX_FILE_SIZE == 30000000

-----------------------------------------------------------------------------
(* Text, dictionaries and raw JSON values.                                 *)

NoneT == <<"None">>

NoStatus == "None"

EmptyDict == <<>>

Str(t) == [list |-> FALSE, items |-> <<t>>]

List(ts) == [list |-> TRUE, items |-> ts]

RawNone == [list |-> FALSE, items |-> <<>>]

Replace(s, a, b) == [i \in DOMAIN s |-> IF s[i] = a THEN b ELSE s[i]]

Get(d, k) == IF k \in DOMAIN d THEN d[k] ELSE NoneT

RawGet(d, k) == IF k \in DOMAIN d THEN d[k] ELSE RawNone

RawTruthy(v) == v.items # <<>> /\ (v.list \/ v.items[1] # <<>>)

Truthy(t) == t # NoneT /\ t # <<>>

RECURSIVE SortedSeq(_)
SortedSeq(S) ==
    IF S = {} THEN <<>>
    ELSE LET m == CHOOSE x \in S : \A y \in S : x <= y
         IN <<m>> \o SortedSeq(S \ {m})

RECURSIVE JoinQuoted(_)
JoinQuoted(items) ==
    IF items = <<>> THEN <<>>
    ELSE <<"'">> \o Head(items) \o <<"'">> \o
         (IF Len(items) > 1 THEN <<", ">> ELSE <<>>) \o JoinQuoted(Tail(items))

(* str(value) of a JSON string or list of strings.                         *)
PyStr(v) == IF v.list THEN <<"[">> \o JoinQuoted(v.items) \o <<"]">> ELSE v.items[1]

-----------------------------------------------------------------------------
(* push.py: metadata formatting.                                           *)

first_if_list(v) == IF v.items = <<>> THEN NoneT ELSE v.items[1]

field_mapping ==
    [title |-> "title_s", citation |-> "label_s", description |-> "abstract_s",
     publication_date |-> "producedDate_tdate", doi |-> "doiId_s",
     hal_id |-> "halId_s", document_type |-> "docType_s"]

MappedValue(metadata, r2r_field) ==
    first_if_list(RawGet(metadata, field_mapping[r2r_field]))

DoiUrl == <<"https://doi.org/">>

HalUrl == <<"https://hal.science/">>

format_metadata_for_uploadMutant(metadata) ==
    LET base == {f \in DOMAIN field_mapping : Truthy(MappedValue(metadata, f))}
        auth == IF RawTruthy(RawGet(metadata, "authFullName_s"))
                THEN {"authors"} ELSE {}
        src  == IF "doi" \in base \/ "hal_id" \in base
                THEN {"source_url"} ELSE {}
    IN [k \in base \cup auth \cup src |->
            IF k = "authors" THEN first_if_list(metadata["authFullName_s"])
            ELSE IF k = "source_url"
                 THEN IF "doi" \in base
                      THEN DoiUrl \o MappedValue(metadata, "doi")
                      ELSE HalUrl \o MappedValue(metadata, "hal_id")
            ELSE MappedValue(metadata, k)]

format_metadata_for_upload(metadata) ==
    LET base == {f \in DOMAIN field_mapping : Truthy(MappedValue(metadata, f))}
        auth == IF RawTruthy(RawGet(metadata, "authFullName_s"))
                THEN {"authors"} ELSE {}
        src  == IF "doi" \in base \/ "hal_id" \in base
                THEN {"source_url"} ELSE {}
    IN [k \in base \cup auth \cup src |->
            IF k = "authors" THEN PyStr(metadata["authFullName_s"])
            ELSE IF k = "source_url"
                 THEN IF "doi" \in base
                      THEN DoiUrl \o MappedValue(metadata, "doi")
                      ELSE HalUrl \o MappedValue(metadata, "hal_id")
            ELSE MappedValue(metadata, k)]

-----------------------------------------------------------------------------
(* push.py: catalog and local inventory.                                   *)

HalIdOf(pub) == pub["halId_s"].items[1]

(* dict built by "for pub in publications: d[pub['halId_s']] = pub": the   *)
(* keys keep the order of their first insertion, the value is the last.    *)
load_catalog_local(pubs) ==
    LET keyed == {i \in 1..Len(pubs) : "halId_s" \in DOMAIN pubs[i]}
        first == {i \in keyed : \A j \in keyed : j < i => HalIdOf(pubs[j]) # HalIdOf(pubs[i])}
        last(i) == CHOOSE j \in keyed :
                      /\ HalIdOf(pubs[j]) = HalIdOf(pubs[i])
                      /\ \A k \in keyed : HalIdOf(pubs[k]) = HalIdOf(pubs[i]) => k <= j
        order == SortedSeq(first)
    IN [n \in 1..Len(order) |-> pubs[last(order[n])]]

Underscore(hal_id) == Replace(hal_id, "-", "_")

Exists(files, stem, ext) == \E f \in files : f.stem = stem /\ f.ext = ext

FileOf(files, stem, ext) == CHOOSE f \in files : f.stem = stem /\ f.ext = ext

(* The PDF file probed for a hal_id: the hyphen spelling, else the         *)
(* underscore spelling, else none (the empty set).                         *)
Candidate(files, hal_id) ==
    IF Exists(files, hal_id, ".pdf") THEN {FileOf(files, hal_id, ".pdf")}
    ELSE IF Exists(files, Underscore(hal_id), ".pdf")
         THEN {FileOf(files, Underscore(hal_id), ".pdf")}
    ELSE {}

HasFulltextUrl(metadata) ==
    "pdf_url" \in DOMAIN metadata \/ "fileMain_s" \in DOMAIN metadata

Oversized(f) == f.size > MAX_FILE_SIZE

LocalClassMutant(files, metadata) ==
    LET hal_id == HalIdOf(metadata)
        cand == Candidate(files, hal_id)
    IN IF cand # {}
       THEN IF \E f \in cand : Oversized(f) THEN "oversized" ELSE "available"
       ELSE IF \E f \in files : f.stem \in {hal_id, Underscore(hal_id)}
            THEN "non_pdf"
       ELSE "missing"

(* Class of one catalog entry in establish_available_documents.            *)
LocalClass(files, metadata) ==
    LET hal_id == HalIdOf(metadata)
        cand == Candidate(files, hal_id)
    IN IF ~HasFulltextUrl(metadata) THEN "skipped"
       ELSE IF cand # {}
            THEN IF \E f \in cand : Oversized(f) THEN "oversized" ELSE "available"
       ELSE IF \E f \in files : f.stem \in {hal_id, Underscore(hal_id)}
            THEN "non_pdf"
       ELSE "missing"

establish_available_documents(pubs, files) ==
    LET by_id == load_catalog_local(pubs)
        count(c) == Cardinality({n \in 1..Len(by_id) : LocalClass(files, by_id[n]) = c})
    IN [available_docs |-> SelectSeq(by_id, LAMBDA m : LocalClass(files, m) = "available"),
        total |-> Len(by_id),
        missing |-> count("missing"),
        oversized |-> count("oversized"),
        non_pdf |-> count("non_pdf")]

-----------------------------------------------------------------------------
(* The remote document store, as the scripts see it through the client.    *)

Statuses == {"success", "failed", "pending"}

MetaColumn ==
    [title |-> "meta_title", citation |-> "meta_citation",
     description |-> "meta_description",
     publication_date |-> "meta_publication_date", doi |-> "meta_doi",
     hal_id |-> "meta_hal_id", document_type |-> "meta_document_type",
     authors |-> "meta_authors", source_url |-> "meta_source_url"]

(* json_normalize(...).add_prefix("meta_") of the stored metadata.         *)
StoredMeta(metadata) ==
    [c \in {MetaColumn[k] : k \in DOMAIN metadata} |->
        metadata[CHOOSE k \in DOMAIN metadata : MetaColumn[k] = c]]

FileName(f) == f.stem \o <<f.ext>>

DocIdOf(f) == <<"doc:">> \o FileName(f)

(* The document the store holds after a successful create: its title is    *)
(* the metadata title when there is one, else the file name.               *)
NewDocument(f, metadata, st) ==
    [id |-> DocIdOf(f),
     title |-> IF "title" \in DOMAIN metadata THEN metadata["title"] ELSE FileName(f),
     ingestion_status |-> st,
     meta |-> StoredMeta(metadata)]

RemoteCreate(store, f, metadata, st) ==
    {d \in store : d.id # DocIdOf(f)} \cup {NewDocument(f, metadata, st)}

RemoteDelete(store, doc_id) == {d \in store : d.id # doc_id}

(* push.main: existing_documents[doc["title"]] = doc["ingestion_status"],  *)
(* row after row; with several documents of one title the last row wins,   *)
(* and the order of the rows is the store's.                               *)
ExistingDocuments(store) ==
    LET titles == {d.title : d \in store}
    IN {ex \in [titles -> Statuses] :
           \A t \in titles : \E d \in store : d.title = t /\ d.ingestion_status = ex[t]}

Lookup(existing_documents, doc_title) ==
    IF doc_title \in DOMAIN existing_documents
    THEN existing_documents[doc_title] ELSE NoStatus

-----------------------------------------------------------------------------
(* push.py: upload decisions.                                              *)

(* Skipping only what was ingested successfully.                           *)
SkipStatusMutant(ingestion_status) == ingestion_status = "success"

(* "if ingestion_status not in (None, 'failed'): continue"                 *)
SkipStatus(ingestion_status) == ingestion_status \notin {NoStatus, "failed"}

get_uploadable_documents(available_docs, existing_documents, files) ==
    LET doc_title(m) == Get(format_metadata_for_upload(m), "title")
        key(m) == IF doc_title(m) = NoneT THEN HalIdOf(m) ELSE doc_title(m)
        wanted == SelectSeq(available_docs,
                     LAMBDA m : /\ ~SkipStatus(Lookup(existing_documents, key(m)))
                                /\ Candidate(files, HalIdOf(m)) # {})
    IN [n \in 1..Len(wanted) |->
           CHOOSE f \in Candidate(files, HalIdOf(wanted[n])) : TRUE]

exclude_oversized_pdfs(files_seq) == SelectSeq(files_seq, LAMBDA f : ~Oversized(f))

(* metadata_by_file.get(file_stem, {}) of load_metadata: every publication *)
(* with a halId_s is stored under both spellings, later ones overwrite.    *)
load_metadata(pubs, file_stem) ==
    LET hits == {i \in 1..Len(pubs) :
                    /\ "halId_s" \in DOMAIN pubs[i]
                    /\ file_stem \in {HalIdOf(pubs[i]), Underscore(HalIdOf(pubs[i]))}}
    IN IF hits = {} THEN EmptyDict
       ELSE pubs[CHOOSE i \in hits : \A j \in hits : j <= i]

(* upload_pdfs: the title the existing documents are searched for.         *)
UploadTitle(pubs, f) ==
    LET raw == load_metadata(pubs, f.stem)
        formatted == IF raw # EmptyDict THEN format_metadata_for_upload(raw) ELSE EmptyDict
    IN IF "title" \in DOMAIN formatted THEN formatted["title"] ELSE f.stem

(* upload_pdfs: the metadata sent with the file (None is the empty map).   *)
UploadMetadata(pubs, f) ==
    LET raw == load_metadata(pubs, f.stem)
    IN IF raw # EmptyDict THEN format_metadata_for_upload(raw) ELSE EmptyDict

(* A test for the dry run that a budget of 0 does not pass.                *)
DryRunMutant(max_upload) == max_upload < 0

(* upload_pdfs: "if max_upload == 0: return (0, 0, [])"                    *)
DryRun(max_upload) == max_upload = 0

(* A budget test that lets one more success through.                      *)
BudgetReachedMutant(max_upload, successes) == max_upload > 0 /\ successes > max_upload

(* upload_pdfs: "if max_upload > 0 and success_count >= max_upload: break" *)
BudgetReached(max_upload, successes) == max_upload > 0 /\ successes >= max_upload

(* print_upload_statistics                                                 *)
UploadExitCode(failed) == IF failed # <<>> THEN 5 ELSE 0

-----------------------------------------------------------------------------
(* cull.py and align_metadata.py: matching, metadata diff, selection.      *)

CatalogHas(by_id, hal_id) == \E n \in 1..Len(by_id) : HalIdOf(by_id[n]) = hal_id

EntryOf(by_id, hal_id) == by_id[CHOOSE n \in 1..Len(by_id) : HalIdOf(by_id[n]) = hal_id]

(* intake.utils.load_catalog_by_hal_id: the catalog indexed by hal_id.     *)
load_catalog_by_hal_id(pubs) == load_catalog_local(pubs)

(* intake.utils.get_server_documents: every document of the store, with    *)
(* its flattened metadata.                                                 *)
get_server_documents(store) == store

(* A matching that finds no catalog entry for any document.                *)
match_documents_to_catalogMutant(doc, by_id) == {}

(* cull.match_documents_to_catalog: the catalog entry of a document, or    *)
(* the empty set.                                                          *)
match_documents_to_catalog(doc, by_id) ==
    LET meta_hal_id == Get(doc.meta, "meta_hal_id")
    IN IF Truthy(meta_hal_id) /\ CatalogHas(by_id, meta_hal_id)
       THEN {EntryOf(by_id, meta_hal_id)} ELSE {}

EndsWithPdf(title) == title # NoneT /\ Len(title) > 0 /\ title[Len(title)] = ".pdf"

(* align_metadata.match_documents_to_catalog: by meta_hal_id, else by the  *)
(* title with its .pdf suffix removed and "_" replaced by "-".             *)
align_match_documents_to_catalog(doc, by_id) ==
    LET meta_hal_id == Get(doc.meta, "meta_hal_id")
        potential_hal_id == Replace(SubSeq(doc.title, 1, Len(doc.title) - 1), "_", "-")
    IN IF Truthy(meta_hal_id) /\ CatalogHas(by_id, meta_hal_id)
       THEN {EntryOf(by_id, meta_hal_id)}
       ELSE IF EndsWithPdf(doc.title) /\ CatalogHas(by_id, potential_hal_id)
            THEN {EntryOf(by_id, potential_hal_id)}
       ELSE {}

Blank(t) == \A i \in DOMAIN t : t[i] = " "

PyStrOfStored(t) == IF t = NoneT THEN <<"N", "o", "n", "e">> ELSE t

(* A comparison that takes a blank stored value as it is.                  *)
needs_metadata_updateMutant(doc, catalog_metadata) ==
    LET formatted == format_metadata_for_upload(catalog_metadata)
        stored(f) == Get(doc.meta, MetaColumn[f])
        same(f) == \/ f = "authors" /\ PyStrOfStored(stored(f)) = Get(formatted, f)
                   \/ stored(f) = Get(formatted, f)
    IN {f \in DOMAIN MetaColumn : ~same(f)}

(* needs_metadata_update: the fields of the mapping whose catalog value    *)
(* differs from the stored one.                                            *)
needs_metadata_update(doc, catalog_metadata) ==
    LET formatted == format_metadata_for_upload(catalog_metadata)
        stored(f) == Get(doc.meta, MetaColumn[f])
        current(f) == IF stored(f) = NoneT \/ Blank(stored(f)) THEN NoneT ELSE stored(f)
        same(f) == \/ f = "authors" /\ PyStrOfStored(stored(f)) = Get(formatted, f)
                   \/ current(f) = Get(formatted, f)
    IN {f \in DOMAIN MetaColumn : ~same(f)}

RECURSIVE SeqOfSet(_)
SeqOfSet(S) ==
    IF S = {} THEN <<>>
    ELSE LET x == CHOOSE y \in S : TRUE IN <<x>> \o SeqOfSet(S \ {x})

(* Orphans that leave out the documents stored without a hal_id.           *)
OrphansMutant(documents, by_id) ==
    {d \in documents : /\ "meta_hal_id" \in DOMAIN d.meta
                       /\ match_documents_to_catalog(d, by_id) = {}}

(* cull.main: the documents whose id is the doc_id of no match.            *)
Orphans(documents, by_id) ==
    {d \in documents : match_documents_to_catalog(d, by_id) = {}}

Mismatches(documents, by_id) ==
    {d \in documents :
        \E e \in match_documents_to_catalog(d, by_id) : needs_metadata_update(d, e) # {}}

(* cull.main: "if args.target in (...)" for the two kinds of deletion.     *)
SelectsMissing(target) == target \in {"missing", "both"}

SelectsMismatch(target) == target \in {"mismatch", "both"}

CullToProcess(documents, by_id, target) ==
    (IF SelectsMissing(target)
     THEN SeqOfSet({[kind |-> "missing", doc_id |-> d.id] : d \in Orphans(documents, by_id)})
     ELSE <<>>)
    \o
    (IF SelectsMismatch(target)
     THEN SeqOfSet({[kind |-> "mismatch", doc_id |-> d.id] : d \in Mismatches(documents, by_id)})
     ELSE <<>>)

AlignMatches(documents, by_id) ==
    {d \in documents : align_match_documents_to_catalog(d, by_id) # {}}

(* align_metadata.process_matches: the matched documents that are deleted. *)
AlignToProcess(documents, by_id) ==
    SeqOfSet({[kind |-> "mismatch", doc_id |-> d.id] :
                d \in {m \in AlignMatches(documents, by_id) :
                        \E e \in align_match_documents_to_catalog(m, by_id) :
                            needs_metadata_update(m, e) # {}}})

(* A delete_document that calls the store in either mode.                  *)
CallsDeleteMutant(execute_mode) == TRUE

(* delete_document: "if not execute_mode: return True" before the call.    *)
CallsDelete(execute_mode) == execute_mode

-----------------------------------------------------------------------------
(* The worlds the scripts are run in: catalogs, directories and stores.    *)

H1 == <<"hal", "-", "1">>

H2 == <<"hal", "-", "2">>

H9 == <<"hal", "-", "9">>

T1 == <<"T1">>

T2 == <<"T2">>

TOld == <<"Told">>

Url == <<"https://hal.science/file.pdf">>

Pub(id, title, url) ==
    LET keys == {"halId_s"} \cup (IF title # RawNone THEN {"title_s"} ELSE {})
                            \cup (IF url THEN {"fileMain_s", "pdf_url"} ELSE {})
    IN [k \in keys |-> IF k = "halId_s" THEN Str(id)
                       ELSE IF k = "title_s" THEN title ELSE Str(Url)]

File(stem, ext, size) == [stem |-> stem, ext |-> ext, size |-> size]

(* Two publications of one title; two titles, one of them multi-valued;    *)
(* a publication without title and one without fulltext URL.               *)
FormerCatalog == <<Pub(H1, Str(T1), TRUE), Pub(H2, Str(T1), TRUE)>>

CatalogChoices ==
    {FormerCatalog,
     <<Pub(H1, Str(T1), TRUE), Pub(H2, List(<<T2, T1>>), TRUE)>>,
     <<Pub(H1, RawNone, TRUE), Pub(H2, Str(T2), FALSE)>>}

(* Both files present; one file under its underscore spelling at the size  *)
(* limit, the other missing; one file over the limit, the other not a PDF. *)
LocalChoices ==
    {{File(H1, ".pdf", 1), File(H2, ".pdf", 1)},
     {File(Underscore(H1), ".pdf", MAX_FILE_SIZE)},
     {File(H1, ".pdf", MAX_FILE_SIZE + 1), File(H2, ".txt", 1)}}

(* Documents a store may hold at the start: uploads of catalog entries in  *)
(* several ingestion statuses, an upload made under a former title, a      *)
(* document of a publication that left the catalog, and one uploaded       *)
(* without metadata.                                                       *)
DocumentPool(pubs) ==
    LET entry(h) == EntryOf(pubs, h)
        file(h) == File(h, ".pdf", 1)
        meta(h) == format_metadata_for_upload(entry(h))
    IN {NewDocument(file(H1), meta(H1), st) : st \in {"success", "failed"}}
       \cup {NewDocument(file(H2), meta(H2), st) : st \in {"failed", "pending"}}
       \cup {NewDocument(file(h), [meta(h) EXCEPT !["title"] = TOld], "success") :
                h \in {i \in {H1} : "title" \in DOMAIN meta(i)}}
       \cup {[id |-> <<"doc:", "x">>, title |-> T1, ingestion_status |-> "failed",
              meta |-> [meta_hal_id |-> H9, meta_title |-> T1]],
             [id |-> <<"doc:", "y">>, title |-> FileName(File(Underscore(H1), ".pdf", 1)),
              ingestion_status |-> "success", meta |-> EmptyDict]}

StoreChoices(pubs) ==
    {{}} \cup {{d} : d \in DocumentPool(pubs)}
         \cup {{d, e} : d, e \in {x \in DocumentPool(pubs) : TRUE}}

UniqueIds(store) == \A d, e \in store : d.id = e.id => d = e

NoArgs == [script |-> "none", max_upload |-> 0, target |-> "none", execute |-> FALSE]

NoSnapshot == [docs |-> {}, existing |-> EmptyDict]

NotPrepared == [variant |-> "none"]

NoInventory == [variant |-> "none"]

NoDiffs == [variant |-> "none"]

NoPager == [fn |-> "none"]

NoFetch == [variant |-> "none"]

NoDownload == [variant |-> "none"]

NoUploads == [variant |-> "none"]
NotEvaluated == [fn |-> "none"]

NoHist == [pushed |-> FALSE, uploaded |-> {}, culled |-> FALSE, deleted |-> {}]

Targets == {"missing", "mismatch", "both"}

(* Values of --target that are not among the choices of the parser.        *)
RejectedTargets == {"failed-ingestions", "all"}

(* The catalog file: readable; none found by get_catalog_file; a path that *)
(* does not exist; a file that json.loads or get_catalog_publications      *)
(* raises on.                                                              *)
CatalogFileStates == {"ok", "none", "missing", "malformed"}

Nets == {"ok", "down", "export_failed"}

Outcomes == {"success", "failed", "raise"}

Init ==
    /\ \/ catalog \in CatalogChoices \cup {<<>>} /\ catalog_file = "ok"
       \/ catalog = <<>> /\ catalog_file \in CatalogFileStates \ {"ok"}
    /\ localFiles \in LocalChoices
    /\ remote \in {S \in StoreChoices(IF catalog = <<>> THEN FormerCatalog ELSE catalog) :
                      UniqueIds(S)}
    /\ pc = "idle"
    /\ args = NoArgs
    /\ snapshot = NoSnapshot
    /\ pdf_files = <<>>
    /\ idx = 1
    /\ success_count = 0
    /\ skipped_count = 0
    /\ failed_files = <<>>
    /\ to_process = <<>>
    /\ delete_count = 0
    /\ exit_code = 0
    /\ calls = <<>>
    /\ nruns = 0
    /\ hist = NoHist
    /\ docs = <<>>
    /\ prepared = NotPrepared
    /\ inventory = NoInventory
    /\ diffs = NoDiffs
    /\ reads = <<>>
    /\ pager = NoPager
    /\ fetch = NoFetch
    /\ download = NoDownload
    /\ uploads = NoUploads
    /\ evaluated = NotEvaluated

-----------------------------------------------------------------------------
(* Runs of push.py.                                                        *)

OkTargets(cs, op) == {cs[i].target : i \in {j \in 1..Len(cs) : cs[j].op = op /\ cs[j].ok}}

(* What a finished push run leaves for the next runs to be compared with:  *)
(* the files it created, when every candidate was examined, no create      *)
(* failed and every ingestion ended in success.                            *)
HistAfterPush(h, code, exhausted, cs) ==
    LET clean == /\ code = 0
                 /\ exhausted
                 /\ \A i \in 1..Len(cs) : cs[i].ok /\ cs[i].status = "success"
    IN [h EXCEPT !.pushed = clean,
                 !.uploaded = IF clean THEN OkTargets(cs, "create") ELSE {}]

(* A read request of a run and how it ended: answered, not answered        *)
(* because the store cannot be reached, or answered without the listing.   *)
Read(op, result) == [op |-> op, result |-> result]

ListResult(net) ==
    IF net = "down" THEN "unreachable"
    ELSE IF net = "export_failed" THEN "failed" ELSE "ok"

(* What the loaders get out of the catalog file: nothing when the path     *)
(* does not exist or reading it raises.                                    *)
ReadCatalog == IF catalog_file = "ok" THEN catalog ELSE <<>>

(* push.main up to the call of upload_pdfs: the exit code of an early      *)
(* return (-1 when the upload loop is entered) and the candidate files.    *)
PushPlan(max_upload, net, existing_documents) ==
    LET est == establish_available_documents(ReadCatalog, localFiles)
        uploadable == get_uploadable_documents(est.available_docs, existing_documents, localFiles)
        filtered == exclude_oversized_pdfs(uploadable)
        listed == <<Read("health", "ok"), Read("list", ListResult(net))>>
    IN IF catalog_file = "none" THEN [exit |-> 1, files |-> <<>>, reads |-> <<>>]
       ELSE IF est.available_docs = <<>> THEN [exit |-> 1, files |-> <<>>, reads |-> <<>>]
       ELSE IF net = "down" THEN [exit |-> 2, files |-> <<>>,
                                  reads |-> <<Read("health", "unreachable")>>]
       ELSE IF net = "export_failed" THEN [exit |-> 3, files |-> <<>>, reads |-> listed]
       ELSE IF uploadable = <<>> THEN [exit |-> 0, files |-> <<>>, reads |-> listed]
       ELSE IF filtered = <<>> THEN [exit |-> 4, files |-> <<>>, reads |-> listed]
       ELSE IF DryRun(max_upload)
            THEN [exit |-> UploadExitCode(<<>>), files |-> filtered, reads |-> listed]
       ELSE [exit |-> -1, files |-> filtered, reads |-> listed]

PushStart(max_upload, net) ==
    /\ pc = "idle"
    /\ nruns < MaxRuns
    /\ nruns' = nruns + 1
    /\ \E ex \in ExistingDocuments(remote) :
         \E plan \in {PushPlan(max_upload, net, ex)} :
            /\ args' = [script |-> "push", max_upload |-> max_upload,
                        target |-> "none", execute |-> FALSE]
            /\ snapshot' = IF net = "ok" /\ plan.exit # 1
                           THEN [docs |-> remote, existing |-> ex] ELSE NoSnapshot
            /\ pdf_files' = plan.files
            /\ reads' = plan.reads
            /\ exit_code' = IF plan.exit >= 0 THEN plan.exit ELSE exit_code
            /\ pc' = IF plan.exit >= 0 THEN "done" ELSE "uploading"
            /\ hist' = IF plan.exit >= 0
                       THEN HistAfterPush(hist, plan.exit, plan.files = <<>>, <<>>)
                       ELSE hist
    /\ UNCHANGED <<catalog, localFiles, remote, idx, success_count, skipped_count,
                   failed_files, to_process, delete_count, calls, docs, prepared,
                   inventory, diffs, catalog_file, pager, toolVars>>

(* str(e) of the exception a create call raises.                           *)
CreateError == "create failed"

(* A loop that an exception ends.                                          *)
NextIndexAfterFailureMutant(i, n) == n + 1

(* The loop goes on with the next file after an exception.                 *)
NextIndexAfterFailure(i, n) == i + 1

(* One iteration of the loop of upload_pdfs.  outcome is what the store    *)
(* does with the create call: it raises, or it accepts the file, whose     *)
(* ingestion then ends in success or in failure.                           *)
UploadStep(outcome) ==
    /\ pc = "uploading"
    /\ idx <= Len(pdf_files)
    /\ ~BudgetReached(args.max_upload, success_count)
    /\ LET f == pdf_files[idx]
           ingestion_status == Lookup(snapshot.existing, UploadTitle(catalog, f))
       IN IF SkipStatus(ingestion_status)
          THEN /\ skipped_count' = skipped_count + 1
               /\ idx' = idx + 1
               /\ UNCHANGED <<remote, success_count, failed_files, calls>>
          ELSE IF outcome = "raise"
          THEN /\ failed_files' = Append(failed_files, <<f, CreateError>>)
               /\ calls' = Append(calls, [op |-> "create", target |-> f, ok |-> FALSE,
                                          status |-> NoStatus])
               /\ idx' = NextIndexAfterFailure(idx, Len(pdf_files))
               /\ UNCHANGED <<remote, success_count, skipped_count>>
          ELSE /\ remote' = RemoteCreate(remote, f, UploadMetadata(catalog, f), outcome)
               /\ calls' = Append(calls, [op |-> "create", target |-> f, ok |-> TRUE,
                                          status |-> outcome])
               /\ success_count' = success_count + 1
               /\ idx' = idx + 1
               /\ UNCHANGED <<skipped_count, failed_files>>
    /\ UNCHANGED <<catalog, localFiles, pc, args, snapshot, pdf_files, to_process,
                   delete_count, exit_code, nruns, hist, docs, prepared, auxVars>>

(* upload_pdfs returns and push.main returns print_upload_statistics.      *)
PushFinish ==
    /\ pc = "uploading"
    /\ idx > Len(pdf_files) \/ BudgetReached(args.max_upload, success_count)
    /\ pc' = "done"
    /\ exit_code' = UploadExitCode(failed_files)
    /\ hist' = HistAfterPush(hist, UploadExitCode(failed_files), idx > Len(pdf_files), calls)
    /\ UNCHANGED <<catalog, localFiles, remote, args, snapshot, pdf_files, idx,
                   success_count, skipped_count, failed_files, to_process,
                   delete_count, calls, nruns, docs, prepared, auxVars>>

-----------------------------------------------------------------------------
(* Runs of cull.py and align_metadata.py.                                  *)

(* What a finished delete run leaves: the documents a cull --execute run   *)
(* over both kinds of deletion (the default target) deleted, when every    *)
(* delete succeeded.                                                       *)
HistAfterDelete(h, a, code, cs) ==
    LET clean == /\ a.script = "cull"
                 /\ a.target = "both"
                 /\ a.execute
                 /\ code = 0
                 /\ \A i \in 1..Len(cs) : cs[i].ok
    IN IF a.script = "cull"
       THEN [h EXCEPT !.culled = clean,
                      !.deleted = IF clean THEN OkTargets(cs, "delete") ELSE {}]
       ELSE NoHist

(* A cull that goes on to the store with an empty catalog.                 *)
CullPlanMutant(target, net) ==
    LET by_id == load_catalog_by_hal_id(ReadCatalog)
        selected == CullToProcess(get_server_documents(remote), by_id, target)
        listed == <<Read("list", ListResult(net))>>
    IN IF net = "export_failed" THEN [exit |-> 2, items |-> <<>>, reads |-> listed]
       ELSE IF net = "down" THEN [exit |-> 3, items |-> <<>>, reads |-> listed]
       ELSE IF selected = <<>> THEN [exit |-> 0, items |-> <<>>, reads |-> listed]
       ELSE [exit |-> -1, items |-> selected, reads |-> listed]

(* cull.main up to the delete loop: the exit code of an early return (-1   *)
(* when the loop is entered), the selected documents, the requests made.   *)
CullPlan(target, net) ==
    LET by_id == load_catalog_by_hal_id(ReadCatalog)
        selected == CullToProcess(get_server_documents(remote), by_id, target)
        listed == <<Read("list", ListResult(net))>>
    IN IF catalog_file = "none" THEN [exit |-> 1, items |-> <<>>, reads |-> <<>>]
       ELSE IF by_id = <<>> THEN [exit |-> 1, items |-> <<>>, reads |-> <<>>]
       ELSE IF net = "export_failed" THEN [exit |-> 2, items |-> <<>>, reads |-> listed]
       ELSE IF net = "down" THEN [exit |-> 3, items |-> <<>>, reads |-> listed]
       ELSE IF selected = <<>> THEN [exit |-> 0, items |-> <<>>, reads |-> listed]
       ELSE [exit |-> -1, items |-> selected, reads |-> listed]

AlignPlan(net) ==
    LET by_id == load_catalog_local(ReadCatalog)
        listed == <<Read("list", ListResult(net))>>
    IN IF catalog_file = "none" THEN [exit |-> 1, items |-> <<>>, reads |-> <<>>]
       ELSE IF by_id = <<>> THEN [exit |-> 1, items |-> <<>>, reads |-> <<>>]
       ELSE IF net = "export_failed" THEN [exit |-> 2, items |-> <<>>, reads |-> listed]
       ELSE IF net = "down" THEN [exit |-> 3, items |-> <<>>, reads |-> listed]
       ELSE IF AlignMatches(remote, by_id) = {}
            THEN [exit |-> 4, items |-> <<>>, reads |-> listed]
       ELSE IF AlignToProcess(remote, by_id) = <<>>
            THEN [exit |-> 0, items |-> <<>>, reads |-> listed]
       ELSE [exit |-> -1, items |-> AlignToProcess(remote, by_id), reads |-> listed]

DeleteRunStart(a, plan, net) ==
    /\ pc = "idle"
    /\ nruns < MaxRuns
    /\ nruns' = nruns + 1
    /\ args' = a
    /\ snapshot' = IF net = "ok" /\ plan.exit # 1
                   THEN [docs |-> remote, existing |-> EmptyDict] ELSE NoSnapshot
    /\ to_process' = plan.items
    /\ reads' = plan.reads
    /\ exit_code' = IF plan.exit >= 0 THEN plan.exit ELSE exit_code
    /\ pc' = IF plan.exit >= 0 THEN "done" ELSE "deleting"
    /\ hist' = IF plan.exit >= 0 THEN HistAfterDelete(hist, a, plan.exit, <<>>) ELSE hist
    /\ UNCHANGED <<catalog, localFiles, remote, pdf_files, idx, success_count,
                   skipped_count, failed_files, delete_count, calls, docs, prepared,
                   inventory, diffs, catalog_file, pager, toolVars>>

(* parser.parse_args() of cull.main on a --target value outside the        *)
(* choices: parser.error exits with status 2 before anything is read.      *)
CullUsageError(target, execute) ==
    /\ pc = "idle"
    /\ nruns < MaxRuns
    /\ nruns' = nruns + 1
    /\ target \notin Targets
    /\ args' = [script |-> "cull", max_upload |-> 0, target |-> target,
                execute |-> execute]
    /\ pc' = "rejected"
    /\ exit_code' = 2
    /\ hist' = HistAfterDelete(hist, args', 2, <<>>)
    /\ UNCHANGED <<catalog, localFiles, remote, snapshot, pdf_files, idx, success_count,
                   skipped_count, failed_files, to_process, delete_count, calls,
                   docs, prepared, auxVars>>

CullStart(target, execute, net) ==
    DeleteRunStart([script |-> "cull", max_upload |-> 0, target |-> target,
                    execute |-> execute], CullPlan(target, net), net)

AlignStart(execute, net) ==
    DeleteRunStart([script |-> "align", max_upload |-> 0, target |-> "mismatch",
                    execute |-> execute], AlignPlan(net), net)

(* One iteration of the delete loop: delete_document on the next item.     *)
DeleteStep(accepted) ==
    /\ pc = "deleting"
    /\ idx <= Len(to_process)
    /\ LET doc_id == to_process[idx].doc_id
       IN IF ~CallsDelete(args.execute)
          THEN /\ delete_count' = delete_count + 1
               /\ UNCHANGED <<remote, calls>>
          ELSE IF accepted
          THEN /\ remote' = RemoteDelete(remote, doc_id)
               /\ calls' = Append(calls, [op |-> "delete", target |-> doc_id, ok |-> TRUE,
                                          status |-> NoStatus])
               /\ delete_count' = delete_count + 1
          ELSE /\ calls' = Append(calls, [op |-> "delete", target |-> doc_id, ok |-> FALSE,
                                          status |-> NoStatus])
               /\ UNCHANGED <<remote, delete_count>>
    /\ idx' = idx + 1
    /\ UNCHANGED <<catalog, localFiles, pc, args, snapshot, pdf_files, success_count,
                   skipped_count, failed_files, to_process, exit_code, nruns, hist,
                   docs, prepared, auxVars>>

DeleteFinish ==
    /\ pc = "deleting"
    /\ idx > Len(to_process)
    /\ pc' = "done"
    /\ exit_code' = 0
    /\ hist' = HistAfterDelete(hist, args, 0, calls)
    /\ UNCHANGED <<catalog, localFiles, remote, args, snapshot, pdf_files, idx,
                   success_count, skipped_count, failed_files, to_process,
                   delete_count, calls, nruns, docs, prepared, auxVars>>

(* sys.exit(main()): the process ends and its variables with it.           *)
Exit ==
    /\ pc \in {"done", "rejected"}
    /\ pc' = "idle"
    /\ args' = NoArgs
    /\ snapshot' = NoSnapshot
    /\ pdf_files' = <<>>
    /\ idx' = 1
    /\ success_count' = 0
    /\ skipped_count' = 0
    /\ failed_files' = <<>>
    /\ to_process' = <<>>
    /\ delete_count' = 0
    /\ exit_code' = 0
    /\ calls' = <<>>
    /\ reads' = <<>>
    /\ UNCHANGED <<catalog, localFiles, remote, nruns, hist, docs, prepared,
                   inventory, diffs, catalog_file, pager, toolVars>>

Next ==
    \/ \E m \in 0..MaxBudget, net \in Nets : PushStart(m, net)
    \/ \E outcome \in Outcomes : UploadStep(outcome)
    \/ PushFinish
    \/ \E t \in Targets, e \in BOOLEAN, net \in Nets : CullStart(t, e, net)
    \/ \E t \in RejectedTargets, e \in BOOLEAN : CullUsageError(t, e)
    \/ \E e \in BOOLEAN, net \in Nets : AlignStart(e, net)
    \/ \E accepted \in BOOLEAN : DeleteStep(accepted)
    \/ DeleteFinish
    \/ Exit

Spec == Init /\ [][Next]_vars

-----------------------------------------------------------------------------
(* Properties of the synchronisation scripts.                              *)

InPush == args.script = "push"

CreateCalls == {i \in 1..Len(calls) : calls[i].op = "create"}

DeleteCalls == {i \in 1..Len(calls) : calls[i].op = "delete"}

C2_DryRunDelete ==
    [][(args'.script \in {"cull", "align"} /\ ~args'.execute) =>
           (calls' = <<>> /\ remote' = remote)]_vars

(* A dry run of cull that went through an orphan and a mismatch.           *)
C2_Witness ==
    /\ args.script = "cull"
    /\ ~args.execute
    /\ pc = "done"
    /\ \E i, j \in 1..Len(to_process) :
          to_process[i].kind = "missing" /\ to_process[j].kind = "mismatch"
    /\ delete_count = Len(to_process)

HalIdKnown(d) ==
    /\ "meta_hal_id" \in DOMAIN d.meta
    /\ \E n \in 1..Len(catalog) : HalIdOf(catalog[n]) = d.meta["meta_hal_id"]

Aligned(d) ==
    /\ HalIdKnown(d)
    /\ needs_metadata_update(d, EntryOf(catalog, d.meta["meta_hal_id"])) = {}

(* C3: every delete call of a cull --execute run names a document of the   *)
(* store that is an orphan (its meta_hal_id is the hal_id of no catalog    *)
(* entry) or whose metadata differ from its catalog entry's; a document    *)
(* with a known hal_id and aligned metadata gets no delete call, whatever  *)
(* the target.                                                             *)
C3_CullDeletesOnlySelected ==
    (args.script = "cull" /\ args.execute) =>
        \A i \in DeleteCalls :
            \E d \in snapshot.docs :
                /\ d.id = calls[i].target
                /\ ~Aligned(d)

(* An executed cull that deleted a document and left an aligned one.       *)
C3_Witness ==
    /\ args.script = "cull"
    /\ args.execute
    /\ pc = "done"
    /\ \E i \in DeleteCalls : calls[i].ok
    /\ \E d \in snapshot.docs : Aligned(d) /\ d \in remote

ItemsOfKind(kind) ==
    {to_process[i].doc_id : i \in {j \in 1..Len(to_process) : to_process[j].kind = kind}}

OnlySelectedExecuted ==
    (args.script = "cull" /\ snapshot # NoSnapshot) =>
        \A d \in snapshot.docs :
            LET touched == \/ d.id \in {to_process[i].doc_id : i \in 1..Len(to_process)}
                           \/ \E i \in DeleteCalls : calls[i].target = d.id
            IN /\ (args.target = "missing" /\ HalIdKnown(d)) => ~touched
               /\ (args.target = "mismatch" /\ ~HalIdKnown(d)) => ~touched

(* C16: cull accepts the --target values missing, mismatch,                *)
(* failed-ingestions and all, and carries out only the decisions of the    *)
(* selected kind.                                                          *)
C16_TargetSelection ==
    /\ (args.script = "cull"
          /\ args.target \in {"missing", "mismatch", "failed-ingestions", "all"})
         => pc # "rejected"
    /\ OnlySelectedExecuted

(* The catalog file gives the loaders no entry: none is found, the path    *)
(* does not exist, reading it raises, or it holds no publication.          *)
CatalogBroken == catalog_file # "ok" \/ catalog = <<>>

InPushOrCull == args.script \in {"push", "cull"} /\ pc # "idle"

(* C17: a push or cull run whose catalog file is missing, unreadable,      *)
(* malformed or without entries ends with a non-zero exit code, issues no  *)
(* health, list, export, create or delete request, and leaves the store as *)
(* it was: no document is taken for an orphan and deleted.                 *)
C17_ConfigErrorsAbort ==
    /\ [](InPushOrCull /\ CatalogBroken =>
            /\ pc \in {"done", "rejected"}
            /\ exit_code # 0
            /\ reads = <<>>
            /\ calls = <<>>
            /\ to_process = <<>>
            /\ pdf_files = <<>>)
    /\ [][CatalogBroken => remote' = remote]_vars

(* An executed cull over a store with documents and a malformed catalog    *)
(* file.                                                                   *)
C17_Witness ==
    /\ args.script = "cull"
    /\ args.execute
    /\ args.target = "both"
    /\ catalog_file = "malformed"
    /\ remote # {}
    /\ pc = "done"
    /\ exit_code = 1

Finished == pc = "done" /\ args.script \in {"push", "cull"}

Unreachable == \E i \in 1..Len(reads) : reads[i].result = "unreachable"

ActionFailed == \E i \in 1..Len(calls) : ~calls[i].ok

(* C18: a finished push or cull run returns 1 when no catalog is found, 2  *)
(* exactly when the store could not be reached, 3 or more when a create or *)
(* delete call failed, and 0 only when no remote action failed.            *)
C18_ExitCodeTaxonomy ==
    Finished =>
        /\ CatalogBroken => exit_code = 1
        /\ exit_code = 2 <=> Unreachable
        /\ ActionFailed => exit_code >= 3
        /\ exit_code = 0 => ~ActionFailed /\ ~Unreachable

(* The remote documents of the snapshot that carry the hal_id of an entry. *)
CarryingHalId(m) ==
    {d \in snapshot.docs : /\ "meta_hal_id" \in DOMAIN d.meta
                           /\ d.meta["meta_hal_id"] = HalIdOf(m)}

(* C22: in a push run that has read the store, every catalog entry with an *)
(* available local file and no remote document carrying its hal_id is      *)
(* selected for upload, whatever the other remote documents are.           *)
C22_IdBasedMatching ==
    (args.script = "push" /\ snapshot # NoSnapshot) =>
        LET available == establish_available_documents(ReadCatalog, localFiles).available_docs
        IN \A n \in 1..Len(available) :
              CarryingHalId(available[n]) = {} =>
                  \E k \in 1..Len(pdf_files) :
                      pdf_files[k] \in Candidate(localFiles, HalIdOf(available[n]))

(* The listing of the run holds a successfully ingested document under    *)
(* the title push gives to the file.                                       *)
IngestedUnderTitle(f) ==
    \E d \in snapshot.docs : /\ d.title = UploadTitle(catalog, f)
                              /\ d.ingestion_status = "success"

(* C28: a file whose title is borne by a successfully ingested document of *)
(* the listing is neither selected for upload nor created by the run, even *)
(* when other documents of the same title failed and whatever the order of *)
(* the rows.                                                               *)
C28_NoReuploadOfIngested ==
    (InPush /\ snapshot # NoSnapshot) =>
        /\ \A k \in 1..Len(pdf_files) : ~IngestedUnderTitle(pdf_files[k])
        /\ \A i \in CreateCalls : ~IngestedUnderTitle(calls[i].target)

(* C4: with max_upload = N > 0 a push run never has more than N successful *)
(* creates, issues no create call once N are reached, and a create that    *)
(* raises leaves the number of successes as it was.                        *)
C4_UploadBudget ==
    /\ [](InPush /\ args.max_upload > 0 =>
            /\ success_count <= args.max_upload
            /\ Cardinality({i \in CreateCalls : calls[i].ok}) <= args.max_upload)
    /\ [][/\ (InPush /\ args.max_upload > 0 /\ success_count >= args.max_upload)
               => Len(calls') <= Len(calls)
          /\ (InPush /\ Len(failed_files') > Len(failed_files))
               => success_count' = success_count]_vars

(* A run stopped by its budget of one with a candidate left.               *)
C4_Witness ==
    /\ InPush
    /\ pc = "done"
    /\ args.max_upload = 1
    /\ success_count = 1
    /\ idx <= Len(pdf_files)

(* C5: a create that raises is recorded in failed_files, is no success,    *)
(* and the loop goes on with the next file; at every point of a run each   *)
(* file examined so far is counted once, as success, skipped or failed,    *)
(* and the three counts never exceed the number of candidate files.        *)
C5_FailureIsolation ==
    /\ [](InPush =>
            /\ success_count + skipped_count + Len(failed_files) = idx - 1
            /\ idx - 1 <= Len(pdf_files)
            /\ Len(failed_files) = Cardinality({i \in CreateCalls : ~calls[i].ok})
            /\ success_count = Cardinality({i \in CreateCalls : calls[i].ok}))
    /\ [][(InPush /\ Len(calls') > Len(calls) /\ ~calls'[Len(calls')].ok) =>
             /\ failed_files' = Append(failed_files, <<pdf_files[idx], CreateError>>)
             /\ success_count' = success_count
             /\ idx' = idx + 1
             /\ pc' = "uploading"]_vars

(* A run whose first create raised and whose second succeeded.             *)
C5_Witness ==
    /\ InPush
    /\ pc = "done"
    /\ Len(calls) = 2
    /\ ~calls[1].ok
    /\ calls[2].ok
    /\ Len(failed_files) = 1
    /\ success_count = 1

(* The status get_uploadable_documents observes for a catalog entry.       *)
ObservedForEntry(m) ==
    LET formatted == format_metadata_for_upload(m)
    IN Lookup(snapshot.existing,
              IF "title" \in DOMAIN formatted THEN formatted["title"] ELSE HalIdOf(m))

(* C6: a file is a candidate of a push run exactly when its catalog entry  *)
(* is available locally, within the size limit, and the status observed    *)
(* for it is absent or "failed"; in the loop a create is issued for the    *)
(* file exactly when the status observed for it is absent or "failed",     *)
(* and otherwise the file is counted as skipped and no call is made.       *)
C6_SkipRetryDecision ==
    /\ [](InPush /\ snapshot # NoSnapshot =>
            LET available == establish_available_documents(catalog, localFiles).available_docs
            IN \A f \in localFiles :
                 (\E n \in 1..Len(pdf_files) : pdf_files[n] = f) <=>
                    \E k \in 1..Len(available) :
                       /\ f \in Candidate(localFiles, HalIdOf(available[k]))
                       /\ ~Oversized(f)
                       /\ ObservedForEntry(available[k]) \in {NoStatus, "failed"})
    /\ [][(pc = "uploading" /\ idx' = idx + 1) =>
             LET observed == Lookup(snapshot.existing, UploadTitle(catalog, pdf_files[idx]))
             IN IF observed \in {NoStatus, "failed"}
                THEN /\ calls' = Append(calls, calls'[Len(calls')])
                     /\ calls'[Len(calls')].op = "create"
                     /\ calls'[Len(calls')].target = pdf_files[idx]
                     /\ skipped_count' = skipped_count
                ELSE /\ calls' = calls
                     /\ skipped_count' = skipped_count + 1]_vars

(* A run that retried a failed document and skipped a pending one.         *)
C6_Witness ==
    /\ InPush
    /\ pc = "done"
    /\ \E d \in snapshot.docs : d.ingestion_status = "failed"
    /\ \E d \in snapshot.docs : d.ingestion_status = "pending"
    /\ Len(calls) >= 1
    /\ Len(pdf_files) = 1

(* The files a push run started now would select for upload, for one      *)
(* reading of the store's documents.                                       *)
RerunUploads(existing_documents) ==
    LET est == establish_available_documents(catalog, localFiles)
        files == exclude_oversized_pdfs(
                    get_uploadable_documents(est.available_docs, existing_documents,
                                             localFiles))
    IN {files[n] : n \in 1..Len(files)}

(* The documents a cull run started now would treat as orphans.            *)
RerunOrphans ==
    Orphans(get_server_documents(remote), load_catalog_by_hal_id(catalog))

(* C7: once a push run has examined every candidate with every create and *)
(* every ingestion succeeding, and a cull --execute run on both targets    *)
(* has had every delete succeed, a new run of the pipeline on the same     *)
(* catalog and files selects none of the files just uploaded for upload,   *)
(* in whatever order the store lists its documents, and none of the        *)
(* documents just deleted as an orphan.                                    *)
C7_Idempotence ==
    (pc = "idle" /\ hist.pushed /\ hist.culled) =>
        /\ \A ex \in ExistingDocuments(remote) : RerunUploads(ex) \cap hist.uploaded = {}
        /\ \A d \in RerunOrphans : d.id \notin hist.deleted

-----------------------------------------------------------------------------
(* Catalog preparation: utils.normalize_title, prepare_catalog.py, pc2.py. *)
(* Titles are tuples of characters here.                                   *)

LowerCase == [A |-> "a", B |-> "b"]

Lower(c) == IF c \in DOMAIN LowerCase THEN LowerCase[c] ELSE c

WordChars == {"a", "b", "A", "B", "1", "_"}

SpaceChars == {" ", "\t"}

(* re.sub(r"\s+", " ", title): every run of whitespace becomes one space.  *)
RECURSIVE CollapseSpaces(_)
CollapseSpaces(t) ==
    IF t = <<>> THEN <<>>
    ELSE IF Head(t) \in SpaceChars
         THEN IF Len(t) > 1 /\ t[2] \in SpaceChars
              THEN CollapseSpaces(Tail(t))
              ELSE <<" ">> \o CollapseSpaces(Tail(t))
         ELSE <<Head(t)>> \o CollapseSpaces(Tail(t))

(* str.strip() after the collapse: at most one space at either end.        *)
Strip(t) ==
    LET from == IF t # <<>> /\ t[1] = " " THEN 2 ELSE 1
        to == IF t # <<>> /\ t[Len(t)] = " " THEN Len(t) - 1 ELSE Len(t)
    IN SubSeq(t, from, to)

normalize_title(title) ==
    IF ~RawTruthy(title) THEN <<>>
    ELSE LET text == title.items[1]
             lowered == [i \in DOMAIN text |-> Lower(text[i])]
             kept == SelectSeq(lowered, LAMBDA c : c \in WordChars \cup SpaceChars)
         IN Strip(CollapseSpaces(kept))

UpperCase == [report |-> "REPORT", other |-> "OTHER", undefined |-> "UNDEFINED"]

Upper(c) == IF c \in DOMAIN UpperCase THEN UpperCase[c] ELSE c

working_paper_types == {"UNDEFINED", "OTHER", "REPORT"}

(* prepare_catalog.is_working_paper on pub.get("docType_s", "")            *)
is_working_paper(doc_type) ==
    IF ~RawTruthy(doc_type) THEN FALSE
    ELSE Upper(doc_type.items[1][1]) \in working_paper_types

has_open_access(pub) == "fileMain_s" \in DOMAIN pub /\ RawTruthy(pub["fileMain_s"])

TitleKey(pub) == normalize_title(RawGet(pub, "title_s"))

(* The keys of the groups in the order of their insertion; a publication   *)
(* whose normalized title is empty enters no group ("if normalized:").     *)
GroupKeys(publications) ==
    LET firsts == {i \in 1..Len(publications) :
                      /\ TitleKey(publications[i]) # <<>>
                      /\ \A j \in 1..(i - 1) :
                            TitleKey(publications[j]) # TitleKey(publications[i])}
        order == SortedSeq(firsts)
    IN [n \in 1..Len(order) |-> TitleKey(publications[order[n]])]

group_by_normalized_title(publications) ==
    LET keys == GroupKeys(publications)
    IN [n \in 1..Len(keys) |->
           SelectSeq(publications, LAMBDA pub : TitleKey(pub) = keys[n])]

(* The body of the loop of filter_working_papers for one group.            *)
FilterGroup(group) ==
    LET published_articles ==
            SelectSeq(group, LAMBDA pub : ~is_working_paper(RawGet(pub, "docType_s")))
        working_papers ==
            SelectSeq(group, LAMBDA pub : is_working_paper(RawGet(pub, "docType_s")))
        published_with_fulltext == SelectSeq(published_articles, has_open_access)
    IN IF Len(group) = 1 THEN [kept |-> group, excluded |-> 0]
       ELSE IF published_with_fulltext # <<>>
            THEN [kept |-> published_articles, excluded |-> Len(working_papers)]
       ELSE [kept |-> group, excluded |-> 0]

RECURSIVE FilterGroups(_)
FilterGroups(groups) ==
    IF groups = <<>> THEN [publications |-> <<>>, excluded_count |-> 0]
    ELSE LET first == FilterGroup(Head(groups))
             rest == FilterGroups(Tail(groups))
         IN [publications |-> first.kept \o rest.publications,
             excluded_count |-> first.excluded + rest.excluded_count]

filter_working_papers(publications) ==
    FilterGroups(group_by_normalized_title(publications))

(* html.unescape on the entity the records use.                            *)
Unescape(label) == Replace(label, "&amp;", "&")

(* "2020-01-01T00:00:00Z".split("T")[0]                                    *)
DateOnly(date) ==
    LET ts == {i \in DOMAIN date : date[i] = "T"}
    IN IF ts = {} THEN date
       ELSE SubSeq(date, 1, (CHOOSE i \in ts : \A j \in ts : i <= j) - 1)

(* The first loop of prepare_catalog.process_publications on one record.   *)
CleanPub(pub) ==
    LET keys == DOMAIN pub \cup (IF "fileMain_s" \in DOMAIN pub THEN {"pdf_url"} ELSE {})
    IN [k \in keys |->
          IF k = "label_s" THEN Str(Unescape(pub[k].items[1]))
          ELSE IF k = "producedDate_tdate" THEN Str(DateOnly(pub[k].items[1]))
          ELSE IF k = "pdf_url" THEN pub["fileMain_s"]
          ELSE pub[k]]

CIRED == <<"CIRED">>

(* "not lab_acronym_present and cired_in_citation"                         *)
IsUnrelatedCommunication(pub) ==
    LET lab_acronym_present ==
            /\ "labStructAcronym_s" \in DOMAIN pub
            /\ \E i \in DOMAIN pub["labStructAcronym_s"].items :
                  pub["labStructAcronym_s"].items[i] = CIRED
        label == RawGet(pub, "label_s")
        cired_in_citation ==
            /\ label.items # <<>>
            /\ \E i \in DOMAIN label.items[1] : label.items[1][i] = "CIRED"
    IN ~lab_acronym_present /\ cired_in_citation

(* load_blacklist: the excluded_hal_ids of the blacklist file.             *)
load_blacklist == {<<"hal", "-", "0", ToString(n)>> : n \in 1..9}

PubHalId(pub) == IF "halId_s" \in DOMAIN pub THEN HalIdOf(pub) ELSE <<>>

related_publications(publications) ==
    SelectSeq([i \in DOMAIN publications |-> CleanPub(publications[i])],
              LAMBDA pub : ~IsUnrelatedCommunication(pub))

(* The publications handed to filter_working_papers.                       *)
filtered_publications(publications) ==
    SelectSeq(related_publications(publications),
              LAMBDA pub : PubHalId(pub) \notin load_blacklist /\ has_open_access(pub))

(* prepare_catalog.process_publications                                    *)
process_publications(publications) ==
    LET cleaned == [i \in DOMAIN publications |-> CleanPub(publications[i])]
        unrelated == SelectSeq(cleaned, IsUnrelatedCommunication)
        related == related_publications(publications)
        blacklisted == SelectSeq(related, LAMBDA pub : PubHalId(pub) \in load_blacklist)
        allowed == SelectSeq(related, LAMBDA pub : PubHalId(pub) \notin load_blacklist)
        closed == SelectSeq(allowed, LAMBDA pub : ~has_open_access(pub))
        final == filter_working_papers(filtered_publications(publications))
    IN [variant |-> "prepare_catalog",
        raised |-> FALSE,
        publications |-> final.publications,
        excluded_communications |-> unrelated,
        filtering_statistics |->
            [total_retrieved |-> Len(publications),
             cired_conference_excluded |-> Len(unrelated),
             blacklisted_excluded |-> Len(blacklisted),
             no_open_access_excluded |-> Len(closed),
             working_papers_excluded |-> final.excluded_count,
             final_count |-> Len(final.publications)]]

-----------------------------------------------------------------------------
(* pc2.py: the same preparation on a pandas DataFrame.                     *)

Columns(publications) == UNION {DOMAIN publications[i] : i \in DOMAIN publications}

(* pc2 first_str: the first item of a non-empty list, a string, else "".   *)
first_str(x) == IF x.items = <<>> THEN Str(<<>>) ELSE Str(x.items[1])

(* pc2 is_working_paper: a value that is no string (NaN) is no working     *)
(* paper.                                                                  *)
pc2_is_working_paper(doc_type) ==
    IF doc_type.items = <<>> \/ doc_type.list THEN FALSE
    ELSE doc_type.items[1] # <<>> /\ Upper(doc_type.items[1][1]) \in working_paper_types

(* df.get("title_s", df["label_s"]).apply(first_str).apply(normalize_title) *)
norm_title(pub, columns) ==
    normalize_title(first_str(RawGet(pub, IF "title_s" \in columns
                                          THEN "title_s" ELSE "label_s")))

pc2_CleanPub(pub) ==
    [k \in DOMAIN pub |->
        IF k = "label_s" THEN Str(Unescape(pub[k].items[1]))
        ELSE IF k = "producedDate_tdate" THEN Str(DateOnly(pub[k].items[1]))
        ELSE pub[k]]

filter_group(group) ==
    LET not_wp == SelectSeq(group, LAMBDA pub : ~pc2_is_working_paper(RawGet(pub, "docType_s")))
    IN IF not_wp # <<>> THEN not_wp ELSE group

(* sorted(records, key=halId_s): a stable sort; the ids are "hal-<d>" and  *)
(* "hal-0<d>" for a digit d, and "hal-0..." sorts before "hal-<d>".        *)
HalRank(pub) ==
    LET id == PubHalId(pub)
        digit == CHOOSE n \in 0..9 : ToString(n) = id[Len(id)]
    IN IF id = <<>> THEN -1 ELSE IF Len(id) = 4 THEN digit ELSE 10 + digit

RECURSIVE SortByHalId(_)
SortByHalId(pubs) ==
    IF pubs = <<>> THEN <<>>
    ELSE LET m == CHOOSE i \in DOMAIN pubs :
                     /\ \A j \in DOMAIN pubs : HalRank(pubs[i]) <= HalRank(pubs[j])
                     /\ \A j \in 1..(i - 1) : HalRank(pubs[j]) # HalRank(pubs[i])
         IN <<pubs[m]>> \o SortByHalId(SubSeq(pubs, 1, m - 1) \o SubSeq(pubs, m + 1, Len(pubs)))

(* pc2.process_publications; a frame without label_s or docType_s column   *)
(* raises KeyError.                                                        *)
pc2_process_publications(publications) ==
    LET columns == Columns(publications)
        df == [i \in DOMAIN publications |-> pc2_CleanPub(publications[i])]
        titles == {norm_title(df[i], columns) : i \in DOMAIN df}
        df_filtered ==
            SelectSeq(df, LAMBDA pub :
                \E t \in titles :
                    LET group == SelectSeq(df, LAMBDA q : norm_title(q, columns) = t)
                        kept == filter_group(group)
                    IN \E n \in DOMAIN kept : kept[n] = pub)
    IN IF "label_s" \notin columns \/ "docType_s" \notin columns
       THEN [variant |-> "pc2", raised |-> TRUE, publications |-> <<>>,
             excluded_communications |-> <<>>, filtering_statistics |-> EmptyDict]
       ELSE [variant |-> "pc2",
             raised |-> FALSE,
             publications |-> SortByHalId(df_filtered),
             excluded_communications |-> <<>>,
             filtering_statistics |->
                 [total_retrieved |-> Len(df),
                  working_papers_excluded |-> Len(df) - Len(df_filtered),
                  final_count |-> Len(df_filtered)]]

-----------------------------------------------------------------------------
(* The raw HAL records the preparation is run on.                          *)

TitleA == <<"A", "!">>

TitleSpaceA == <<" ", "a">>

TitlePunct == <<"?">>

Doi1 == <<"10.1/x">>

LabLabel == <<"Doe", "&amp;", "al">>

ConferenceLabel == <<"Colloque", "CIRED">>

ProducedDate == <<"2020-01-01", "T", "00:00:00Z">>

HalRecord(doc_type, title, doi, fulltext, lab) ==
    LET keys == {"label_s", "producedDate_tdate"}
                \cup (IF title # RawNone THEN {"title_s"} ELSE {})
                \cup (IF doc_type # RawNone THEN {"docType_s"} ELSE {})
                \cup (IF doi # RawNone THEN {"doiId_s"} ELSE {})
                \cup (IF fulltext THEN {"fileMain_s"} ELSE {})
                \cup (IF lab THEN {"labStructAcronym_s"} ELSE {})
    IN [k \in keys |->
          IF k = "label_s" THEN Str(IF lab THEN LabLabel ELSE ConferenceLabel)
          ELSE IF k = "producedDate_tdate" THEN Str(ProducedDate)
          ELSE IF k = "title_s" THEN title
          ELSE IF k = "docType_s" THEN doc_type
          ELSE IF k = "doiId_s" THEN doi
          ELSE IF k = "fileMain_s" THEN Str(Url)
          ELSE List(<<CIRED>>)]

DocType(code) == Str(<<code>>)

(* Open-access records of the laboratory of every type, title and DOI;     *)
(* then a record without fulltext, a conference communication, a record    *)
(* with a multi-valued title and one without document type.                *)
RecordChoices ==
    {HalRecord(DocType(c), Str(t), d, TRUE, TRUE) :
        c \in {"ART", "COMM", "OUV", "COUV", "REPORT"},
        t \in {TitleA, TitleSpaceA, TitlePunct},
        d \in {RawNone, Str(Doi1)}}
    \cup {HalRecord(DocType("ART"), Str(TitleSpaceA), RawNone, FALSE, TRUE),
          HalRecord(DocType("COMM"), Str(TitleSpaceA), RawNone, TRUE, FALSE),
          HalRecord(DocType("UNDEFINED"), List(<<TitleA, TitlePunct>>), RawNone, TRUE, TRUE),
          HalRecord(RawNone, Str(TitleA), RawNone, TRUE, TRUE)}

(* HAL gives every record its internal id and its hal id.                  *)
Stamp(r, n, listed) ==
    [docid |-> n,
     halId_s |-> Str(IF listed THEN <<"hal", "-", "0", ToString(n)>>
                     ELSE <<"hal", "-", ToString(n)>>)] @@ r

InitCatalog ==
    /\ catalog = <<>>
    /\ localFiles = {}
    /\ remote = {}
    /\ pc = "preparing"
    /\ args = NoArgs
    /\ snapshot = NoSnapshot
    /\ pdf_files = <<>>
    /\ idx = 1
    /\ success_count = 0
    /\ skipped_count = 0
    /\ failed_files = <<>>
    /\ to_process = <<>>
    /\ delete_count = 0
    /\ exit_code = 0
    /\ calls = <<>>
    /\ nruns = 0
    /\ hist = NoHist
    /\ docs = <<>>
    /\ prepared = NotPrepared
    /\ inventory = NoInventory
    /\ diffs = NoDiffs
    /\ catalog_file = "ok"
    /\ reads = <<>>
    /\ pager = NoPager
    /\ fetch = NoFetch
    /\ download = NoDownload
    /\ uploads = NoUploads
    /\ evaluated = NotEvaluated

(* One more record in the raw HAL response.                                *)
AddDoc(r, listed) ==
    /\ pc = "preparing"
    /\ prepared = NotPrepared
    /\ Len(docs) < MaxDocs
    /\ docs' = Append(docs, Stamp(r, Len(docs) + 1, listed))
    /\ UNCHANGED <<syncVars, auxVars, prepared>>

PrepareCatalog ==
    /\ pc = "preparing"
    /\ prepared = NotPrepared
    /\ prepared' = process_publications(docs)
    /\ UNCHANGED <<syncVars, auxVars, docs>>

Pc2 ==
    /\ pc = "preparing"
    /\ prepared = NotPrepared
    /\ prepared' = pc2_process_publications(docs)
    /\ UNCHANGED <<syncVars, auxVars, docs>>

BlacklistedRecord == HalRecord(DocType("ART"), Str(TitleSpaceA), RawNone, TRUE, TRUE)

NextCatalog ==
    \/ \E r \in RecordChoices : AddDoc(r, FALSE)
    \/ AddDoc(BlacklistedRecord, TRUE)
    \/ PrepareCatalog
    \/ Pc2

SpecCatalog == InitCatalog /\ [][NextCatalog]_vars

-----------------------------------------------------------------------------
(* Properties of the catalog preparation.                                  *)

Prepared == prepared.variant # "none" /\ ~prepared.raised

(* The records that reach the deduplication: in prepare_catalog those the  *)
(* conference, blacklist and open-access filters let through, in pc2 all.  *)
DedupInput ==
    LET pubs == IF prepared.variant = "prepare_catalog"
                THEN filtered_publications(docs)
                ELSE [i \in DOMAIN docs |-> pc2_CleanPub(docs[i])]
    IN {pubs[i] : i \in DOMAIN pubs}

FinalIds == {prepared.publications[n].docid : n \in DOMAIN prepared.publications}

InFinal(pub) == pub.docid \in FinalIds

TypeOf(pub) == IF "docType_s" \in DOMAIN pub THEN pub["docType_s"].items[1][1] ELSE ""

IsWorkingPaperType(pub) == TypeOf(pub) \in {"UNDEFINED", "OTHER", "REPORT"}

TitleGroup(t) == {pub \in DedupInput : TitleKey(pub) = t}

DoiOf(pub) == IF "doiId_s" \in DOMAIN pub THEN pub["doiId_s"].items[1] ELSE <<>>

DoiGroup(d) == {pub \in DedupInput : DoiOf(pub) = d}

Dois == {DoiOf(pub) : pub \in DedupInput} \ {<<>>}

Types(group) == {TypeOf(pub) : pub \in group}

Priority(pub) ==
    IF TypeOf(pub) = "ART" THEN 1
    ELSE IF TypeOf(pub) = "COMM" THEN 2
    ELSE IF TypeOf(pub) = "UNDEFINED" THEN 3
    ELSE 99

(* C8: of the records that share a normalized title, when some are working *)
(* papers (type UNDEFINED, OTHER or REPORT) and some are not, the final    *)
(* catalog holds none of the working papers and all of the others; when    *)
(* all are working papers, it holds them all.                              *)
C8_WorkingPaperExclusion ==
    Prepared =>
        \A t \in {TitleKey(pub) : pub \in DedupInput} :
            LET wps == {pub \in TitleGroup(t) : IsWorkingPaperType(pub)}
                others == TitleGroup(t) \ wps
            IN /\ (wps # {} /\ others # {}) =>
                     /\ \A pub \in wps : ~InFinal(pub)
                     /\ \A pub \in others : InFinal(pub)
               /\ others = {} => \A pub \in wps : InFinal(pub)

(* C9: of the records that share a non-empty DOI, unless their types are   *)
(* exactly OUV and COUV, the final catalog holds exactly one: one of the   *)
(* highest priority (ART, then COMM, then UNDEFINED, then the rest) and,   *)
(* when it is an ART, the ART of the largest internal id.  Stated for the  *)
(* groups whose records all have a non-empty normalized title, the others  *)
(* being lost to the title grouping before any DOI is looked at.           *)
C9_DoiCollapse ==
    Prepared =>
        \A d \in Dois :
            (/\ Types(DoiGroup(d)) # {"OUV", "COUV"}
             /\ \A pub \in DoiGroup(d) : TitleKey(pub) # <<>>) =>
                \E m \in DoiGroup(d) :
                    /\ \A pub \in DoiGroup(d) : InFinal(pub) <=> pub = m
                    /\ \A pub \in DoiGroup(d) : Priority(m) <= Priority(pub)
                    /\ \A pub \in DoiGroup(d) :
                          (TypeOf(m) = "ART" /\ TypeOf(pub) = "ART") => pub.docid <= m.docid

(* C10: when the types of the records that share a non-empty DOI are       *)
(* exactly OUV and COUV, the final catalog holds every one of them.        *)
C10_BookChapterException ==
    Prepared =>
        \A d \in Dois :
            Types(DoiGroup(d)) = {"OUV", "COUV"} =>
                \A pub \in DoiGroup(d) : InFinal(pub)

RECURSIVE SumOver(_, _)
SumOver(f, keys) ==
    IF keys = {} THEN 0
    ELSE LET k == CHOOSE x \in keys : TRUE IN f[k] + SumOver(f, keys \ {k})

(* C11: the statistics of a processed record set reconcile:                *)
(* total_retrieved is final_count plus the sum of the exclusion counters   *)
(* that were emitted, so that no record leaves the catalog uncounted.      *)
C11_CountArithmetic ==
    Prepared =>
        LET stats == prepared.filtering_statistics
            exclusions == DOMAIN stats \ {"total_retrieved", "final_count"}
        IN /\ stats.total_retrieved = Len(docs)
           /\ stats.final_count = Len(prepared.publications)
           /\ stats.total_retrieved = stats.final_count + SumOver(stats, exclusions)


-----------------------------------------------------------------------------
(* The local inventory of push.py on its own: catalogs and document        *)
(* directories built entry by entry, then establish_available_documents.   *)

MaxPubs == 2

MaxFiles == 2

HU1 == <<"hal", "_", "1">>

InventoryIds == {H1, HU1, H2}

PubChoices == {Pub(id, Str(T1), url) : id \in InventoryIds, url \in BOOLEAN}

FileChoices ==
    {File(stem, ".pdf", size) : stem \in InventoryIds,
                                size \in {MAX_FILE_SIZE, MAX_FILE_SIZE + 1}}
    \cup {File(stem, ".txt", 1) : stem \in InventoryIds}

InitInventory ==
    /\ catalog = <<>>
    /\ localFiles = {}
    /\ remote = {}
    /\ pc = "listing"
    /\ args = NoArgs
    /\ snapshot = NoSnapshot
    /\ pdf_files = <<>>
    /\ idx = 1
    /\ success_count = 0
    /\ skipped_count = 0
    /\ failed_files = <<>>
    /\ to_process = <<>>
    /\ delete_count = 0
    /\ exit_code = 0
    /\ calls = <<>>
    /\ nruns = 0
    /\ hist = NoHist
    /\ docs = <<>>
    /\ prepared = NotPrepared
    /\ inventory = NoInventory
    /\ diffs = NoDiffs
    /\ catalog_file = "ok"
    /\ reads = <<>>
    /\ pager = NoPager
    /\ fetch = NoFetch
    /\ download = NoDownload
    /\ uploads = NoUploads
    /\ evaluated = NotEvaluated

(* One more publication in the catalog file.                               *)
AddPub(p) ==
    /\ pc = "listing"
    /\ Len(catalog) < MaxPubs
    /\ catalog' = Append(catalog, p)
    /\ UNCHANGED <<localFiles, remote, pc, args, snapshot, pdf_files, idx,
                   success_count, skipped_count, failed_files, to_process,
                   delete_count, exit_code, calls, nruns, hist, prepVars, auxVars>>

(* One more file in the documents directory; names are unique.             *)
AddFile(f) ==
    /\ pc = "listing"
    /\ Cardinality(localFiles) < MaxFiles
    /\ ~Exists(localFiles, f.stem, f.ext)
    /\ localFiles' = localFiles \cup {f}
    /\ UNCHANGED <<catalog, remote, pc, args, snapshot, pdf_files, idx,
                   success_count, skipped_count, failed_files, to_process,
                   delete_count, exit_code, calls, nruns, hist, prepVars, auxVars>>

Establish ==
    /\ pc = "listing"
    /\ pc' = "inventoried"
    /\ inventory' = establish_available_documents(catalog, localFiles)
    /\ UNCHANGED <<catalog, localFiles, remote, args, snapshot, pdf_files, idx,
                   success_count, skipped_count, failed_files, to_process,
                   delete_count, exit_code, calls, nruns, hist, prepVars, diffs,
                   catalog_file, reads, pager, toolVars>>

NextInventory ==
    \/ \E p \in PubChoices : AddPub(p)
    \/ \E f \in FileChoices : AddFile(f)
    \/ Establish

SpecInventory == InitInventory /\ [][NextInventory]_vars

-----------------------------------------------------------------------------
(* Properties of the local inventory.                                      *)

Inventoried == pc = "inventoried"

CatalogIds ==
    LET by_id == load_catalog_local(catalog)
    IN {HalIdOf(by_id[n]) : n \in 1..Len(by_id)}

(* The catalog ids whose entry has a fulltext URL: those the inventory     *)
(* probes the documents directory for.                                     *)
ProbedIds ==
    LET by_id == load_catalog_local(catalog)
    IN {HalIdOf(by_id[n]) : n \in {k \in 1..Len(by_id) : HasFulltextUrl(by_id[k])}}

(* C12: the file matched to a catalog entry of id X is X.pdf or X.pdf with *)
(* every '-' replaced by '_'; it is not the file named after a different   *)
(* catalog id, and the metadata looked up for it is that of X.             *)
C12_LocalMatchSymmetry ==
    Inventoried =>
        \A X \in ProbedIds : \A f \in Candidate(localFiles, X) :
            /\ f.ext = ".pdf"
            /\ f.stem \in {X, Underscore(X)}
            /\ \A Y \in CatalogIds \ {X} : f.stem # Y
            /\ HalIdOf(load_metadata(catalog, f.stem)) = X

(* The entries of the catalog, one per id, that have a fulltext URL.       *)
UrlEntries ==
    LET by_id == load_catalog_local(catalog)
    IN {n \in 1..Len(by_id) : HasFulltextUrl(by_id[n])}

(* C13: the inventory is a partition of the catalog entries that have a    *)
(* fulltext URL: available + oversized + non_pdf + missing is their        *)
(* number, entries without a fulltext URL are in none of the four, and no  *)
(* entry whose file exceeds the size limit is in the available map.        *)
C13_LocalPartition ==
    Inventoried =>
        LET available == inventory.available_docs
        IN /\ Len(available) + inventory.oversized + inventory.non_pdf
                + inventory.missing = Cardinality(UrlEntries)
           /\ \A n \in 1..Len(available) :
                 /\ HasFulltextUrl(available[n])
                 /\ \E f \in localFiles :
                       /\ f.ext = ".pdf"
                       /\ f.stem \in {HalIdOf(available[n]), Underscore(HalIdOf(available[n]))}
                 /\ \A f \in Candidate(localFiles, HalIdOf(available[n])) :
                       f.size <= MAX_FILE_SIZE
           /\ \A n, k \in 1..Len(available) :
                 HalIdOf(available[n]) = HalIdOf(available[k]) => n = k

(* An entry over the size limit, and an entry without fulltext URL whose   *)
(* file is in the directory.                                               *)
C13_Witness ==
    /\ Inventoried
    /\ inventory.oversized = 1
    /\ \E i \in 1..Len(catalog) :
          /\ ~HasFulltextUrl(catalog[i])
          /\ Exists(localFiles, HalIdOf(catalog[i]), ".pdf")

-----------------------------------------------------------------------------
(* The metadata comparison of cull.py on its own: one catalog entry, the   *)
(* document uploaded for it, edits of the stored metadata, then the        *)
(* comparison and the decision of cull.main.                               *)

MaxEdits == 2

Author1 == <<"Ann">>

Author2 == <<"Bob">>

(* An abstract entered as a single space.                                  *)
BlankAbstract == <<" ">>

DiffPub(title, doi, authors, abstract) ==
    LET keys == {"halId_s"} \cup (IF title # RawNone THEN {"title_s"} ELSE {})
                            \cup (IF doi # RawNone THEN {"doiId_s"} ELSE {})
                            \cup (IF authors # RawNone THEN {"authFullName_s"} ELSE {})
                            \cup (IF abstract # RawNone THEN {"abstract_s"} ELSE {})
    IN [k \in keys |-> IF k = "halId_s" THEN Str(H1)
                       ELSE IF k = "title_s" THEN title
                       ELSE IF k = "doiId_s" THEN doi
                       ELSE IF k = "authFullName_s" THEN authors ELSE abstract]

DiffPubChoices ==
    {DiffPub(t, d, a, b) : t \in {RawNone, Str(T1), List(<<T2, T1>>)},
                           d \in {RawNone, Str(Doi1)},
                           a \in {RawNone, List(<<Author1, Author2>>)},
                           b \in {RawNone, List(<<BlankAbstract>>)}}

(* Stored values an edit may leave: null, the empty string, a blank        *)
(* string, another text.                                                   *)
StoredChoices == {NoneT, <<>>, <<" ">>, TOld}

EditedColumns ==
    {"meta_title", "meta_citation", "meta_doi", "meta_authors", "meta_source_url"}

InitDiff ==
    /\ \E p \in DiffPubChoices :
          /\ catalog = <<p>>
          /\ remote = {NewDocument(File(H1, ".pdf", 1), format_metadata_for_upload(p),
                                   "success")}
    /\ localFiles = {}
    /\ pc = "editing"
    /\ args = NoArgs
    /\ snapshot = NoSnapshot
    /\ pdf_files = <<>>
    /\ idx = 1
    /\ success_count = 0
    /\ skipped_count = 0
    /\ failed_files = <<>>
    /\ to_process = <<>>
    /\ delete_count = 0
    /\ exit_code = 0
    /\ calls = <<>>
    /\ nruns = 0
    /\ hist = NoHist
    /\ docs = <<>>
    /\ prepared = NotPrepared
    /\ inventory = NoInventory
    /\ diffs = NoDiffs
    /\ catalog_file = "ok"
    /\ reads = <<>>
    /\ pager = NoPager
    /\ fetch = NoFetch
    /\ download = NoDownload
    /\ uploads = NoUploads
    /\ evaluated = NotEvaluated

(* The columns whose stored value is no longer the uploaded one.           *)
EditedOf(d) ==
    LET uploaded == StoredMeta(format_metadata_for_upload(catalog[1]))
    IN {c \in EditedColumns \cap DOMAIN d.meta :
            c \notin DOMAIN uploaded \/ d.meta[c] # uploaded[c]}

(* The stored metadata of the document get another value in one column.    *)
EditStored(column, value) ==
    /\ pc = "editing"
    /\ \A d \in remote : Cardinality(EditedOf(d) \cup {column}) <= MaxEdits
    /\ remote' = {[d EXCEPT !.meta = [c \in DOMAIN d.meta \cup {column} |->
                                         IF c = column THEN value ELSE d.meta[c]]] :
                     d \in remote}
    /\ UNCHANGED <<catalog, localFiles, pc, args, snapshot, pdf_files, idx,
                   success_count, skipped_count, failed_files, to_process,
                   delete_count, exit_code, calls, nruns, hist, prepVars, auxVars>>

(* cull.main, lines 269 to 280: matches, orphans and mismatches.           *)
Compare ==
    /\ pc = "editing"
    /\ pc' = "compared"
    /\ LET by_id == load_catalog_by_hal_id(catalog)
           documents == get_server_documents(remote)
       IN diffs' = [fields |-> [d \in {x \in documents :
                                          match_documents_to_catalog(x, by_id) # {}} |->
                                 needs_metadata_update(d,
                                     CHOOSE e \in match_documents_to_catalog(d, by_id) : TRUE)],
                    orphans |-> Orphans(documents, by_id),
                    mismatches |-> Mismatches(documents, by_id)]
    /\ UNCHANGED <<catalog, localFiles, remote, args, snapshot, pdf_files, idx,
                   success_count, skipped_count, failed_files, to_process,
                   delete_count, exit_code, calls, nruns, hist, prepVars, inventory,
                   catalog_file, reads, pager, toolVars>>

NextDiff ==
    \/ \E c \in EditedColumns, v \in StoredChoices : EditStored(c, v)
    \/ Compare

SpecDiff == InitDiff /\ [][NextDiff]_vars

-----------------------------------------------------------------------------
(* Properties of the metadata comparison.                                  *)

Compared == pc = "compared"

(* The stored value of a field, a null, empty or blank one being absent.   *)
StoredValue(d, field) ==
    LET v == IF MetaColumn[field] \in DOMAIN d.meta THEN d.meta[MetaColumn[field]]
             ELSE NoneT
    IN IF v = NoneT \/ v = <<>> \/ (\A i \in 1..Len(v) : v[i] = " ") THEN NoneT ELSE v

(* The value the catalog entry gives to a field, absent when it has none.  *)
CatalogValue(field) ==
    LET formatted == format_metadata_for_upload(catalog[1])
    IN IF field \in DOMAIN formatted THEN formatted[field] ELSE NoneT

DifferingFields(d) ==
    {f \in DOMAIN MetaColumn : StoredValue(d, f) # CatalogValue(f)}

(* C15: for a stored document matched to its catalog entry the comparison  *)
(* returns exactly the fields of the mapping whose catalog value differs   *)
(* from the stored value, a null, empty or blank stored value counting as  *)
(* absent; the document is a metadata mismatch exactly when that set is    *)
(* not empty, and a pair differing in the title only yields {title}.       *)
C15_MetadataDiffer ==
    Compared =>
        \A d \in remote :
            /\ d \in DOMAIN diffs.fields
            /\ diffs.fields[d] = DifferingFields(d)
            /\ diffs.fields[d] \subseteq DOMAIN MetaColumn
            /\ d \in diffs.mismatches <=> DifferingFields(d) # {}
            /\ d \notin diffs.orphans
            /\ (StoredValue(d, "title") # CatalogValue("title")
                  /\ \A f \in DOMAIN MetaColumn \ {"title"} :
                        StoredValue(d, f) = CatalogValue(f))
                 => diffs.fields[d] = {"title"} /\ d \in diffs.mismatches

(* A pair differing in the title only, with a blank stored citation the    *)
(* catalog has no value for.                                               *)
C15_Witness ==
    /\ Compared
    /\ \E d \in remote :
          /\ diffs.fields[d] = {"title"}
          /\ "meta_citation" \in DOMAIN d.meta
          /\ d.meta["meta_citation"] = <<" ">>
          /\ d.meta["meta_title"] = TOld

(* The store holds the document as push created it: no column edited.     *)
FreshlyUploaded(d) ==
    d.meta = StoredMeta(format_metadata_for_upload(catalog[1]))

(* C27: a document created with the formatted metadata of its catalog      *)
(* entry and stored unchanged under the meta_ prefix has no field to       *)
(* update and is not a metadata mismatch, whatever the entry: title with   *)
(* several values, several authors, optional fields missing.               *)
C27_UploadDifferRoundTrip ==
    Compared =>
        \A d \in remote :
            FreshlyUploaded(d) =>
                /\ needs_metadata_update(d, catalog[1]) = {}
                /\ diffs.fields[d] = {}
                /\ d \notin diffs.mismatches

-----------------------------------------------------------------------------
(* The pagination loops: get_paginated_publications of hal_query.py over   *)
(* the HAL API, get_existing_documents of rag_engines/r2r_client.py and of *)
(* data_preparation/push.py and get_existing_titles of                     *)
(* cired_chatbot/scripts/push.py over the document store.                  *)

(* Records per page (HAL_BATCH_SIZE, limit), pages per HAL query           *)
(* (HAL_MAX_BATCHES), records the source holds.                            *)
PageSize == 2

MaxBatches == 3

MaxSource == 6

Loops == {"get_paginated_publications", "r2r_client.get_existing_documents",
          "push.get_existing_documents", "get_existing_titles"}

(* How a page request ends: an answer, one of the three exceptions of      *)
(* requests that hal_query names, or any other exception.                  *)
PageOutcomes == {"ok", "timeout", "http_error", "request_exception", "other_exception"}

(* The records the source returns for a page: those at positions           *)
(* offset + 1 .. offset + limit, as far as it holds any.                   *)
PageAt(size, offset, limit) ==
    LET n == IF size - offset <= 0 THEN 0
             ELSE IF size - offset < limit THEN size - offset ELSE limit
    IN [i \in 1..n |-> offset + i]

(* A handler that lets an HTTP error through.                              *)
CaughtMutant(fn, outcome) ==
    IF fn = "get_paginated_publications"
    THEN outcome \in {"timeout", "request_exception"}
    ELSE TRUE

(* The except clauses: hal_query catches Timeout, HTTPError and            *)
(* RequestException, the store loops catch Exception.                      *)
Caught(fn, outcome) ==
    IF fn = "get_paginated_publications"
    THEN outcome \in {"timeout", "http_error", "request_exception"}
    ELSE TRUE

(* "if len(docs) < limit: break", which get_existing_titles does not have. *)
BreaksOnShortPage(fn) == fn # "get_existing_titles"

InitPages ==
    /\ pager \in [fn : Loops, size : 0..MaxSource, pc : {"request"}, offset : {0},
                  current_batch : {0}, gathered : {<<>>}, requests : {<<>>},
                  failure : {"none"}]
    /\ catalog = <<>>
    /\ localFiles = {}
    /\ remote = {}
    /\ pc = "paging"
    /\ args = NoArgs
    /\ snapshot = NoSnapshot
    /\ pdf_files = <<>>
    /\ idx = 1
    /\ success_count = 0
    /\ skipped_count = 0
    /\ failed_files = <<>>
    /\ to_process = <<>>
    /\ delete_count = 0
    /\ exit_code = 0
    /\ calls = <<>>
    /\ nruns = 0
    /\ hist = NoHist
    /\ docs = <<>>
    /\ prepared = NotPrepared
    /\ inventory = NoInventory
    /\ diffs = NoDiffs
    /\ catalog_file = "ok"
    /\ reads = <<>>
    /\ fetch = NoFetch
    /\ download = NoDownload
    /\ uploads = NoUploads
    /\ evaluated = NotEvaluated

(* One pass through the body of the loop of a store listing.               *)
ListIteration(p, outcome) ==
    LET page == PageAt(p.size, p.offset, PageSize)
        asked == [p EXCEPT !.requests = Append(@, p.offset)]
    IN IF outcome # "ok"
       THEN [asked EXCEPT !.failure = outcome,
                          !.pc = IF Caught(p.fn, outcome) THEN "returned" ELSE "raised"]
       ELSE IF page = <<>> THEN [asked EXCEPT !.pc = "returned"]
       ELSE IF BreaksOnShortPage(p.fn) /\ Len(page) < PageSize
            THEN [asked EXCEPT !.gathered = @ \o page, !.pc = "returned"]
       ELSE [asked EXCEPT !.gathered = @ \o page, !.offset = @ + PageSize]

(* One pass through the body of the while loop of hal_query, then its      *)
(* condition current_batch < HAL_MAX_BATCHES.                              *)
HalIteration(p, outcome) ==
    LET start_index == p.current_batch * PageSize
        page == PageAt(p.size, start_index, PageSize)
        asked == [p EXCEPT !.requests = Append(@, start_index), !.offset = start_index]
    IN IF outcome # "ok"
       THEN [asked EXCEPT !.failure = outcome,
                          !.pc = IF Caught(p.fn, outcome) THEN "returned" ELSE "raised"]
       ELSE IF page = <<>> THEN [asked EXCEPT !.pc = "returned"]
       ELSE IF Len(page) < PageSize
            THEN [asked EXCEPT !.gathered = @ \o page, !.pc = "returned"]
       ELSE [asked EXCEPT !.gathered = @ \o page,
                          !.current_batch = @ + 1,
                          !.pc = IF p.current_batch + 1 < MaxBatches
                                 THEN "request" ELSE "returned"]

PagerFrame ==
    UNCHANGED <<syncVars, prepVars, inventory, diffs, catalog_file, reads, toolVars>>

get_paginated_publications(outcome) ==
    /\ pager.fn = "get_paginated_publications"
    /\ pager.pc = "request"
    /\ pager' = HalIteration(pager, outcome)
    /\ PagerFrame

get_existing_documents(outcome) ==
    /\ pager.fn \in {"r2r_client.get_existing_documents", "push.get_existing_documents"}
    /\ pager.pc = "request"
    /\ pager' = ListIteration(pager, outcome)
    /\ PagerFrame

get_existing_titles(outcome) ==
    /\ pager.fn = "get_existing_titles"
    /\ pager.pc = "request"
    /\ pager' = ListIteration(pager, outcome)
    /\ PagerFrame

NextPages ==
    \/ \E outcome \in PageOutcomes : get_paginated_publications(outcome)
    \/ \E outcome \in PageOutcomes : get_existing_documents(outcome)
    \/ \E outcome \in PageOutcomes : get_existing_titles(outcome)

SpecPages == InitPages /\ [][NextPages]_vars

(* The loops run: a request that can be made is made.                      *)
SpecPagesLive == SpecPages /\ WF_vars(NextPages)

-----------------------------------------------------------------------------
(* Properties of the pagination loops.                                     *)

TransientFailures == {"timeout", "http_error", "request_exception"}

(* The records of the first n pages of the source, in order.               *)
FirstPages(n) ==
    LET k == IF n * PageSize < pager.size THEN n * PageSize ELSE pager.size
    IN [i \in 1..k |-> i]

(* C19: when a page request fails with a timeout, an HTTP error or a       *)
(* request exception, the loop returns: it raises nothing, its result is   *)
(* the records of the pages fetched before (none when the first request    *)
(* failed), and it requests no further page.                               *)
C19_TransientErrors ==
    /\ [](pager.failure \in TransientFailures =>
            /\ pager.pc = "returned"
            /\ pager.gathered = FirstPages(Len(pager.requests) - 1)
            /\ Len(pager.requests) = 1 => pager.gathered = <<>>)
    /\ [][pager.failure \in TransientFailures => pager' = pager]_vars

(* A HAL query whose second page request got an HTTP error.                *)
C19_Witness ==
    /\ pager.fn = "get_paginated_publications"
    /\ pager.failure = "http_error"
    /\ Len(pager.requests) = 2
    /\ Len(pager.gathered) = PageSize

StoreLoops == Loops \ {"get_paginated_publications"}

(* The number of requests that were answered.                              *)
Answered == IF pager.failure = "none" THEN Len(pager.requests) ELSE Len(pager.requests) - 1

(* C20: a listing of the store requests the offsets 0, limit, 2*limit, ... *)
(* in turn; every page but the last one requested was full, so that the    *)
(* first empty or short page ends the loop at once and leaves the offset   *)
(* where it was; every record of the answered pages is in the result; and  *)
(* the loop returns.                                                       *)
C20_RemotePagination ==
    /\ [](pager.fn \in StoreLoops =>
            /\ \A i \in 1..Len(pager.requests) : pager.requests[i] = (i - 1) * PageSize
            /\ \A i \in 1..(Len(pager.requests) - 1) :
                  Len(PageAt(pager.size, pager.requests[i], PageSize)) = PageSize
            /\ (pager.pc = "returned" /\ pager.failure = "none")
                  => pager.offset = pager.requests[Len(pager.requests)]
            /\ pager.gathered = FirstPages(Answered))
    /\ <>(pager.fn \in StoreLoops => pager.pc = "returned")

-----------------------------------------------------------------------------
(* intake.utils.get_existing_documents on its own: the rows the store      *)
(* exports, each with its metadata blob, then the frame built from them.   *)

MaxRows == 2

(* A metadata blob: a JSON object, text json.loads raises on, or JSON that *)
(* is not an object (json_normalize raises on it).                         *)
Blobs == {"object", "malformed", "not_object"}

ExportRow(d, blob) == [doc |-> d, blob |-> blob]

RowChoices == {ExportRow(d, b) : d \in DocumentPool(FormerCatalog), b \in Blobs}

(* The value of get_existing_documents: None (ok is FALSE) when the        *)
(* export, read_csv, json.loads on a blob or json_normalize raises, else   *)
(* the frame with one row per exported document.                           *)
utils_get_existing_documents(rows, export_ok) ==
    IF ~export_ok \/ \E i \in 1..Len(rows) : rows[i].blob # "object"
    THEN [ok |-> FALSE, frame |-> <<>>]
    ELSE [ok |-> TRUE, frame |-> [i \in 1..Len(rows) |-> rows[i].doc]]

FetchFrame ==
    UNCHANGED <<syncVars, prepVars, inventory, diffs, catalog_file, reads, pager,
                download, uploads, evaluated>>

InitFetch ==
    /\ fetch = [pc |-> "exporting", rows |-> <<>>, export_ok |-> TRUE,
                result |-> [ok |-> FALSE, frame |-> <<>>]]
    /\ catalog = FormerCatalog
    /\ localFiles = {}
    /\ remote = {}
    /\ pc = "fetching"
    /\ args = NoArgs
    /\ snapshot = NoSnapshot
    /\ pdf_files = <<>>
    /\ idx = 1
    /\ success_count = 0
    /\ skipped_count = 0
    /\ failed_files = <<>>
    /\ to_process = <<>>
    /\ delete_count = 0
    /\ exit_code = 0
    /\ calls = <<>>
    /\ nruns = 0
    /\ hist = NoHist
    /\ docs = <<>>
    /\ prepared = NotPrepared
    /\ inventory = NoInventory
    /\ diffs = NoDiffs
    /\ catalog_file = "ok"
    /\ reads = <<>>
    /\ pager = NoPager
    /\ download = NoDownload
    /\ uploads = NoUploads
    /\ evaluated = NotEvaluated

(* One more document in the export of the store.                           *)
AddRow(row) ==
    /\ fetch.pc = "exporting"
    /\ Len(fetch.rows) < MaxRows
    /\ \A i \in 1..Len(fetch.rows) : fetch.rows[i].doc.id # row.doc.id
    /\ fetch' = [fetch EXCEPT !.rows = Append(@, row)]
    /\ FetchFrame

Fetch(export_ok) ==
    /\ fetch.pc = "exporting"
    /\ fetch' = [fetch EXCEPT !.pc = "fetched", !.export_ok = export_ok,
                              !.result = utils_get_existing_documents(fetch.rows, export_ok)]
    /\ FetchFrame

NextFetch ==
    \/ \E row \in RowChoices : AddRow(row)
    \/ \E export_ok \in BOOLEAN : Fetch(export_ok)

SpecFetch == InitFetch /\ [][NextFetch]_vars

(* C21: when the export itself succeeds, a record whose metadata blob      *)
(* cannot be parsed or is not an object is the only one dropped: the fetch *)
(* does not fail and returns every other record.                           *)
C21_PerRecordSoftFailure ==
    (fetch.pc = "fetched" /\ fetch.export_ok) =>
        /\ fetch.result.ok
        /\ \A i \in 1..Len(fetch.rows) :
              fetch.rows[i].blob = "object" =>
                  \E k \in 1..Len(fetch.result.frame) :
                      fetch.result.frame[k] = fetch.rows[i].doc

-----------------------------------------------------------------------------
(* push.py: format_metadata_for_upload called on one HAL record.           *)

FormatFields == {"title_s", "doiId_s", "halId_s", "authFullName_s", "abstract_s"}

FormatValues(field) ==
    CASE field = "title_s" -> {Str(T1), List(<<T2, T1>>), List(<<>>)}
      [] field = "doiId_s" -> {Str(Doi1), Str(<<>>)}
      [] field = "halId_s" -> {Str(H1)}
      [] field = "authFullName_s" -> {Str(Author1), List(<<Author1, Author2>>), List(<<>>)}
      [] field = "abstract_s" -> {List(<<T1>>)}

EvalFrame ==
    UNCHANGED <<syncVars, prepVars, inventory, diffs, catalog_file, reads, pager,
                fetch, download, uploads>>

InitFormat ==
    /\ evaluated = [fn |-> "format_metadata_for_upload", metadata |-> EmptyDict,
                    done |-> FALSE, value |-> EmptyDict]
    /\ catalog = <<>>
    /\ localFiles = {}
    /\ remote = {}
    /\ pc = "evaluating"
    /\ args = NoArgs
    /\ snapshot = NoSnapshot
    /\ pdf_files = <<>>
    /\ idx = 1
    /\ success_count = 0
    /\ skipped_count = 0
    /\ failed_files = <<>>
    /\ to_process = <<>>
    /\ delete_count = 0
    /\ exit_code = 0
    /\ calls = <<>>
    /\ nruns = 0
    /\ hist = NoHist
    /\ docs = <<>>
    /\ prepared = NotPrepared
    /\ inventory = NoInventory
    /\ diffs = NoDiffs
    /\ catalog_file = "ok"
    /\ reads = <<>>
    /\ pager = NoPager
    /\ fetch = NoFetch
    /\ download = NoDownload
    /\ uploads = NoUploads

(* The HAL record carries one more field.                                  *)
SetField(field, value) ==
    /\ evaluated.fn = "format_metadata_for_upload"
    /\ ~evaluated.done
    /\ field \notin DOMAIN evaluated.metadata
    /\ evaluated' = [evaluated EXCEPT
                        !.metadata = [k \in DOMAIN @ \cup {field} |->
                                         IF k = field THEN value ELSE @[k]]]
    /\ EvalFrame

Format ==
    /\ evaluated.fn = "format_metadata_for_upload"
    /\ ~evaluated.done
    /\ evaluated' = [evaluated EXCEPT
                        !.done = TRUE,
                        !.value = format_metadata_for_upload(evaluated.metadata)]
    /\ EvalFrame

NextFormat ==
    \/ \E field \in FormatFields : \E value \in FormatValues(field) : SetField(field, value)
    \/ Format

SpecFormat == InitFormat /\ [][NextFormat]_vars

Formatted == evaluated.fn = "format_metadata_for_upload" /\ evaluated.done

IsString(v) == \A k \in DOMAIN v : v[k] \in STRING

HasValue(metadata, field) == Truthy(first_if_list(RawGet(metadata, field)))

C23_WitnessNoUrl ==
    /\ Formatted
    /\ "title" \in DOMAIN evaluated.value
    /\ "source_url" \notin DOMAIN evaluated.value

-----------------------------------------------------------------------------
(* The reconciliation cycle: cull --execute, then push with a positive     *)
(* budget, again and again over a fixed catalog and directory.  Every      *)
(* remote call succeeds and every ingestion ends in success.               *)

InitCycle ==
    /\ catalog \in CatalogChoices
    /\ catalog_file = "ok"
    /\ localFiles \in LocalChoices
    /\ remote \in {S \in StoreChoices(catalog) :
                      Cardinality(S) <= 1 /\ \A d \in S : d.ingestion_status # "failed"}
    /\ pc = "idle"
    /\ args = NoArgs
    /\ snapshot = NoSnapshot
    /\ pdf_files = <<>>
    /\ idx = 1
    /\ success_count = 0
    /\ skipped_count = 0
    /\ failed_files = <<>>
    /\ to_process = <<>>
    /\ delete_count = 0
    /\ exit_code = 0
    /\ calls = <<>>
    /\ nruns = 0
    /\ hist = NoHist
    /\ docs = <<>>
    /\ prepared = NotPrepared
    /\ inventory = NoInventory
    /\ diffs = NoDiffs
    /\ reads = <<>>
    /\ pager = NoPager
    /\ fetch = NoFetch
    /\ download = NoDownload
    /\ uploads = NoUploads
    /\ evaluated = NotEvaluated

(* First run of a cycle: cull.main with --execute and the default target.  *)
CycleCull ==
    /\ nruns = 0
    /\ \E plan \in {CullPlan("both", "ok")} :
          DeleteRunStart([script |-> "cull", max_upload |-> 0, target |-> "both",
                          execute |-> TRUE], plan, "ok")

(* The process of the cull run ends.                                       *)
CycleCullExit ==
    /\ nruns = 1
    /\ Exit

(* Second run of a cycle: push.main with a positive --max-upload.          *)
CyclePush(max_upload) ==
    /\ nruns = 1
    /\ max_upload > 0
    /\ PushStart(max_upload, "ok")

(* The process of the push run ends and the next cycle begins.             *)
NextCycle ==
    /\ pc = "done"
    /\ args.script = "push"
    /\ pc' = "idle"
    /\ args' = NoArgs
    /\ snapshot' = NoSnapshot
    /\ pdf_files' = <<>>
    /\ idx' = 1
    /\ success_count' = 0
    /\ skipped_count' = 0
    /\ failed_files' = <<>>
    /\ to_process' = <<>>
    /\ delete_count' = 0
    /\ exit_code' = 0
    /\ calls' = <<>>
    /\ reads' = <<>>
    /\ nruns' = 0
    /\ UNCHANGED <<catalog, localFiles, remote, hist, docs, prepared,
                   inventory, diffs, catalog_file, pager, toolVars>>

(* The store ends the ingestion of a document it accepted.                 *)
IngestionEnds(d) ==
    /\ d \in remote
    /\ d.ingestion_status = "pending"
    /\ remote' = (remote \ {d}) \cup {[d EXCEPT !.ingestion_status = "success"]}
    /\ UNCHANGED <<catalog, localFiles, pc, args, snapshot, pdf_files, idx,
                   success_count, skipped_count, failed_files, to_process,
                   delete_count, exit_code, calls, nruns, hist, docs, prepared,
                   auxVars>>

NextCycleStep ==
    \/ CycleCull
    \/ DeleteStep(TRUE)
    \/ DeleteFinish
    \/ CycleCullExit
    \/ \E m \in 1..MaxBudget : CyclePush(m)
    \/ UploadStep("success")
    \/ PushFinish
    \/ NextCycle
    \/ \E d \in remote : IngestionEnds(d)

SpecCycle == InitCycle /\ [][NextCycleStep]_vars /\ WF_vars(NextCycleStep)

(* The push run that ends a cycle has returned, and neither it nor the     *)
(* cull run before it issued a call that changes the store.                *)
CycleQuiet ==
    /\ pc = "done"
    /\ args.script = "push"
    /\ CreateCalls = {}
    /\ hist.culled
    /\ hist.deleted = {}

AvailableEntries == establish_available_documents(ReadCatalog, localFiles).available_docs

HasAlignedDocument(m) ==
    \E d \in remote : /\ "meta_hal_id" \in DOMAIN d.meta
                      /\ d.meta["meta_hal_id"] = HalIdOf(m)
                      /\ Aligned(d)

(* C24: repeating the cycle eventually reaches the end of a cycle that     *)
(* issued no create and no delete, with an aligned document in the store   *)
(* for every catalog entry that has an available file.                     *)
C24_Converges ==
    <>(/\ CycleQuiet
       /\ \A n \in 1..Len(AvailableEntries) : HasAlignedDocument(AvailableEntries[n]))

-----------------------------------------------------------------------------
(* push.main: the two inventories of a run, taken one after the other in   *)
(* either order, and the upload decisions made from them.                  *)

(* utils.DOCUMENTS_FILE as written by the other name of a PDF.             *)
ExportFileMutant == File(H2, ".pdf", 1)

(* utils.DOCUMENTS_FILE: the export is written to "documents.csv" in the   *)
(* working directory.                                                      *)
ExportFile == File(<<"documents">>, ".csv", 1)

(* Where the run is started: in the documents directory or elsewhere.      *)
WorkingDirs == {"documents_dir", "elsewhere"}

InitSnapshots ==
    /\ catalog \in CatalogChoices
    /\ catalog_file = "ok"
    /\ localFiles \in LocalChoices
    /\ remote \in {S \in StoreChoices(catalog) : Cardinality(S) <= 1}
    /\ pc = "snapshots"
    /\ \E cwd \in WorkingDirs :
          args = [script |-> "push", max_upload |-> 1, target |-> "none",
                  execute |-> FALSE, cwd |-> cwd]
    /\ snapshot = NoSnapshot
    /\ pdf_files = <<>>
    /\ idx = 1
    /\ success_count = 0
    /\ skipped_count = 0
    /\ failed_files = <<>>
    /\ to_process = <<>>
    /\ delete_count = 0
    /\ exit_code = 0
    /\ calls = <<>>
    /\ nruns = 1
    /\ hist = NoHist
    /\ docs = <<>>
    /\ prepared = NotPrepared
    /\ inventory = NoInventory
    /\ diffs = NoDiffs
    /\ reads = <<>>
    /\ pager = NoPager
    /\ fetch = NoFetch
    /\ download = NoDownload
    /\ uploads = NoUploads
    /\ evaluated = NotEvaluated

Taken(op) == \E i \in 1..Len(reads) : reads[i].op = op

(* establish_available_documents(catalog_file, args.dir)                   *)
TakeLocal ==
    /\ pc = "snapshots"
    /\ ~Taken("directory")
    /\ inventory' = establish_available_documents(ReadCatalog, localFiles)
    /\ reads' = Append(reads, Read("directory", "ok"))
    /\ UNCHANGED <<catalog, localFiles, remote, pc, args, snapshot, pdf_files, idx,
                   success_count, skipped_count, failed_files, to_process,
                   delete_count, exit_code, calls, nruns, hist, prepVars, diffs,
                   catalog_file, pager, toolVars>>

(* get_existing_documents(client) and the loop over documents_df: the      *)
(* export lands in the working directory.                                  *)
TakeRemote ==
    /\ pc = "snapshots"
    /\ ~Taken("list")
    /\ \E ex \in ExistingDocuments(remote) :
          snapshot' = [docs |-> remote, existing |-> ex]
    /\ localFiles' = IF args.cwd = "documents_dir"
                     THEN localFiles \cup {ExportFile} ELSE localFiles
    /\ reads' = Append(reads, Read("list", "ok"))
    /\ UNCHANGED <<catalog, remote, pc, args, pdf_files, idx,
                   success_count, skipped_count, failed_files, to_process,
                   delete_count, exit_code, calls, nruns, hist, prepVars, inventory,
                   diffs, catalog_file, pager, toolVars>>

(* get_uploadable_documents and exclude_oversized_pdfs on the two          *)
(* inventories.                                                            *)
Decide ==
    /\ pc = "snapshots"
    /\ Taken("directory")
    /\ Taken("list")
    /\ pc' = "decided"
    /\ pdf_files' = exclude_oversized_pdfs(
                        get_uploadable_documents(inventory.available_docs,
                                                 snapshot.existing, localFiles))
    /\ UNCHANGED <<catalog, localFiles, remote, args, snapshot, idx,
                   success_count, skipped_count, failed_files, to_process,
                   delete_count, exit_code, calls, nruns, hist, prepVars, inventory,
                   diffs, catalog_file, reads, pager, toolVars>>

NextSnapshots == TakeLocal \/ TakeRemote \/ Decide

SpecSnapshots == InitSnapshots /\ [][NextSnapshots]_vars

(* The documents directory as the run found it.                            *)
DirectoryAtStart == localFiles \ {ExportFile}

(* The decisions of a run that takes the local inventory first and the     *)
(* remote one second, for the same listing.                                *)
SequentialDecisions ==
    exclude_oversized_pdfs(
        get_uploadable_documents(
            establish_available_documents(ReadCatalog, DirectoryAtStart).available_docs,
            snapshot.existing, localFiles))

-----------------------------------------------------------------------------
(* download.py: process_downloads over a catalog and the documents         *)
(* directory.                                                              *)

(* Characters of the model's texts that str.isalnum() rejects; every other *)
(* token is a run of letters and digits.                                   *)
Punctuation == {"-", "_", ".", " ", "/", ":"}

(* An unsafe character dropped instead of replaced.                        *)
SafeCharMutant(c) == IF c \in Punctuation /\ c \notin {" ", ".", "_"} THEN "" ELSE c

(* c if c.isalnum() or c in (" ", ".", "_") else "_"                       *)
SafeChar(c) == IF c \in Punctuation /\ c \notin {" ", ".", "_"} THEN "_" ELSE c

RECURSIVE LStrip(_)
LStrip(t) == IF t # <<>> /\ Head(t) = " " THEN LStrip(Tail(t)) ELSE t

RECURSIVE RStrip(_)
RStrip(t) ==
    IF t # <<>> /\ t[Len(t)] = " " THEN RStrip(SubSeq(t, 1, Len(t) - 1)) ELSE t

sanitize_filename(text) ==
    LET mapped == [i \in 1..Len(text) |-> SafeChar(text[i])]
    IN RStrip(LStrip(SelectSeq(mapped, LAMBDA c : c # "")))

(* hashlib.md5(url.encode()).hexdigest()                                   *)
Md5(url) == <<"md5:">> \o url

HSlash == <<"hal", "/", "3">>

HSpace == <<" ", "hal", "-", "1">>

(* A catalog entry as download.py reads it: its halId_s if any, and its    *)
(* fileMain_s, its pdf_url only, or no URL at all.                         *)
DownloadPub(id, url) ==
    LET keys == (IF id # NoneT THEN {"halId_s"} ELSE {})
                \cup (IF url = "main" THEN {"fileMain_s", "pdf_url"}
                      ELSE IF url = "pdf_url" THEN {"pdf_url"} ELSE {})
    IN [k \in keys |-> IF k = "halId_s" THEN Str(id) ELSE Str(Url)]

DownloadPubs ==
    {DownloadPub(id, "main") : id \in {H1, HU1, H2, HSlash, HSpace, NoneT}}
    \cup {DownloadPub(H2, "pdf_url"), DownloadPub(H1, "none")}

DownloadCatalogs ==
    UNION {[1..n -> DownloadPubs] : n \in 1..MaxPubs}

DownloadDirs ==
    {{}, {File(HU1, ".txt", 1)}, {File(H2, ".pdf", 1), File(Md5(Url), ".tmp", 1)}}

(* What download_file makes of a URL: the request or the write fails, or   *)
(* the file is written under the extension libmagic detects.               *)
DownloadOutcomes == {"failed", ".pdf", ".html"}

DownloadSizes == {1, MAX_FILE_SIZE + 1}

InitDownload ==
    /\ catalog \in DownloadCatalogs
    /\ catalog_file = "ok"
    /\ localFiles \in DownloadDirs
    /\ download = [pc |-> "idle", max_download |-> 0, existing_stems |-> {}, i |-> 1,
                   total |-> 0, skipped |-> 0, downloaded |-> 0, failed |-> 0,
                   attempts |-> <<>>, before |-> localFiles]
    /\ remote = {}
    /\ pc = "downloading"
    /\ args = NoArgs
    /\ snapshot = NoSnapshot
    /\ pdf_files = <<>>
    /\ idx = 1
    /\ success_count = 0
    /\ skipped_count = 0
    /\ failed_files = <<>>
    /\ to_process = <<>>
    /\ delete_count = 0
    /\ exit_code = 0
    /\ calls = <<>>
    /\ nruns = 0
    /\ hist = NoHist
    /\ docs = <<>>
    /\ prepared = NotPrepared
    /\ inventory = NoInventory
    /\ diffs = NoDiffs
    /\ reads = <<>>
    /\ pager = NoPager
    /\ fetch = NoFetch
    /\ uploads = NoUploads
    /\ evaluated = NotEvaluated

DownloadFrame ==
    UNCHANGED <<catalog, remote, pc, args, snapshot, pdf_files, idx, success_count,
                skipped_count, failed_files, to_process, delete_count, exit_code,
                calls, nruns, hist, prepVars, inventory, diffs, catalog_file, reads,
                pager, fetch, uploads, evaluated>>

(* The target file stem of an entry that has a fileMain_s.                 *)
TargetStem(entry) ==
    IF "halId_s" \in DOMAIN entry
    THEN sanitize_filename(HalIdOf(entry))
    ELSE Md5(entry["fileMain_s"].items[1])

(* process_downloads is called: the stems of the directory are cached.     *)
DownloadStart(max_download) ==
    /\ download.pc = "idle"
    /\ download' = [download EXCEPT !.pc = "looping",
                                    !.max_download = max_download,
                                    !.existing_stems = {f.stem : f \in localFiles}]
    /\ UNCHANGED localFiles
    /\ DownloadFrame

(* One iteration of the loop over the catalog.                             *)
DownloadStep(outcome, size) ==
    /\ download.pc = "looping"
    /\ download.i <= Len(catalog)
    /\ LET entry == catalog[download.i]
           stem == TargetStem(entry)
           next == [download EXCEPT !.i = @ + 1]
       IN IF ~RawTruthy(RawGet(entry, "fileMain_s"))
          THEN download' = next /\ UNCHANGED localFiles
          ELSE IF stem \in download.existing_stems
          THEN download' = [next EXCEPT !.skipped = @ + 1] /\ UNCHANGED localFiles
          ELSE IF download.max_download = 0
          THEN download' = [next EXCEPT !.total = @ + 1] /\ UNCHANGED localFiles
          ELSE IF download.total + 1 > download.max_download
          THEN /\ download' = [download EXCEPT !.total = @ + 1, !.pc = "returned"]
               /\ UNCHANGED localFiles
          ELSE LET attempt == [n |-> download.i, stem |-> stem, outcome |-> outcome,
                               present |-> \E f \in localFiles : f.stem = stem]
               IN IF outcome = "failed"
                  THEN /\ download' = [next EXCEPT !.total = @ + 1, !.failed = @ + 1,
                                                   !.attempts = Append(@, attempt)]
                       /\ UNCHANGED localFiles
                  ELSE /\ download' = [next EXCEPT !.total = @ + 1, !.downloaded = @ + 1,
                                                   !.attempts = Append(@, attempt)]
                       /\ localFiles' = {f \in localFiles : f.stem # stem \/ f.ext # outcome}
                                        \cup {File(stem, outcome, size)}
    /\ DownloadFrame

(* The loop ends with the catalog.                                         *)
DownloadReturn ==
    /\ download.pc = "looping"
    /\ download.i > Len(catalog)
    /\ download' = [download EXCEPT !.pc = "returned"]
    /\ UNCHANGED localFiles
    /\ DownloadFrame

NextDownload ==
    \/ \E m \in 0..MaxBudget : DownloadStart(m)
    \/ \E outcome \in DownloadOutcomes, size \in DownloadSizes : DownloadStep(outcome, size)
    \/ DownloadReturn

SpecDownload == InitDownload /\ [][NextDownload]_vars

(* C26: with max_download = 0 nothing is downloaded; with max_download = N *)
(* above 0 at most N downloads are attempted, failed ones included; no     *)
(* attempt is made for an entry without fulltext URL, nor for an entry     *)
(* whose target stem exists in the directory under any extension.          *)
C26_DownloadBudget ==
    download.pc \in {"looping", "returned"} =>
        /\ download.max_download = 0 =>
              (download.attempts = <<>> /\ localFiles = download.before)
        /\ download.max_download > 0 => Len(download.attempts) <= download.max_download
        /\ Len(download.attempts) = download.downloaded + download.failed
        /\ \A k \in 1..Len(download.attempts) :
              /\ HasFulltextUrl(catalog[download.attempts[k].n])
              /\ ~download.attempts[k].present

(* A hal id made of letters, digits and hyphens only.                      *)
AlnumHyphen(hal_id) ==
    /\ hal_id # <<>>
    /\ \A i \in 1..Len(hal_id) : hal_id[i] \notin Punctuation \ {"-"}

(* The attempts that wrote a PDF file for an entry with such a hal id.     *)
PdfWritten ==
    {k \in 1..Len(download.attempts) :
        /\ download.attempts[k].outcome = ".pdf"
        /\ "halId_s" \in DOMAIN catalog[download.attempts[k].n]
        /\ AlnumHyphen(HalIdOf(catalog[download.attempts[k].n]))}

(* C29: the PDF written for an entry whose hal id is made of letters,      *)
(* digits and hyphens is the file establish_available_documents probes for *)
(* that entry, under the hyphen or the underscore spelling: the entry is   *)
(* not classified as missing.                                              *)
C29_DownloadNamingRoundTrip ==
    \A k \in PdfWritten :
        LET entry == catalog[download.attempts[k].n]
            hal_id == HalIdOf(entry)
        IN /\ download.attempts[k].stem \in {hal_id, Underscore(hal_id)}
           /\ Exists(localFiles, download.attempts[k].stem, ".pdf")
           /\ Candidate(localFiles, hal_id) # {}
           /\ LocalClass(localFiles, entry) \in {"available", "oversized"}
           /\ \A n \in 1..Len(load_catalog_local(catalog)) :
                 HalIdOf(load_catalog_local(catalog)[n]) = hal_id =>
                     LocalClass(localFiles, load_catalog_local(catalog)[n]) # "missing"

(* A run that wrote hal_1.pdf for the entry hal-1 and returned.            *)
C29_Witness ==
    /\ download.pc = "returned"
    /\ \E k \in PdfWritten :
          /\ HalIdOf(catalog[download.attempts[k].n]) = H1
          /\ File(HU1, ".pdf", 1) \in localFiles
          /\ establish_available_documents(catalog, localFiles).available_docs # <<>>

-----------------------------------------------------------------------------
(* The four upload_pdfs: intake/push.py, rag_engines/r2r_client.py,        *)
(* data_preparation/push.py and cired_chatbot/scripts/push.py, each run on *)
(* the same files, the same listing and the same max_upload.               *)

Variants == <<"intake", "r2r_client", "data_preparation", "cired_chatbot">>

(* r2r_client.upload_pdfs: "if success_count >= max_upload: break"         *)
r2r_client_BudgetReached(max_upload, successes) == successes >= max_upload

(* data_preparation.push.upload_pdfs: the same test.                       *)
data_preparation_BudgetReached(max_upload, successes) == successes >= max_upload

(* cired_chatbot.scripts.push.upload_pdfs:                                 *)
(* "if max_upload > 0 and success_count >= max_upload: break"              *)
cired_chatbot_BudgetReached(max_upload, successes) ==
    max_upload > 0 /\ successes >= max_upload

(* intake.push.upload_pdfs: the status is looked up under the title of the *)
(* file's catalog entry.                                                   *)
intake_Skips(pubs, existing_documents, f) ==
    SkipStatus(Lookup(existing_documents, UploadTitle(pubs, f)))

(* r2r_client.upload_pdfs: existing_documents.get(pdf_file.name)           *)
r2r_client_Skips(existing_documents, f) ==
    SkipStatus(Lookup(existing_documents, FileName(f)))

data_preparation_Skips(existing_documents, f) ==
    SkipStatus(Lookup(existing_documents, FileName(f)))

(* cired_chatbot: "if pdf_file.name in existing_titles"                    *)
cired_chatbot_Skips(existing_titles, f) == FileName(f) \in existing_titles

(* The loop of the variant does not go on to the next file.                *)
VariantStops(variant, max_upload, successes) ==
    CASE variant = "intake" -> DryRun(max_upload) \/ BudgetReached(max_upload, successes)
      [] variant = "r2r_client" -> r2r_client_BudgetReached(max_upload, successes)
      [] variant = "data_preparation" -> data_preparation_BudgetReached(max_upload, successes)
      [] variant = "cired_chatbot" -> cired_chatbot_BudgetReached(max_upload, successes)

VariantSkips(variant, pubs, existing_documents, f) ==
    CASE variant = "intake" -> intake_Skips(pubs, existing_documents, f)
      [] variant = "r2r_client" -> r2r_client_Skips(existing_documents, f)
      [] variant = "data_preparation" -> data_preparation_Skips(existing_documents, f)
      [] variant = "cired_chatbot" -> cired_chatbot_Skips(DOMAIN existing_documents, f)

UploadFileChoices == {<<File(H1, ".pdf", 1)>>, <<File(H1, ".pdf", 1), File(H2, ".pdf", 1)>>}

(* Listings: no document, one under the title of hal-1's entry, one under  *)
(* the name of its file, or both.                                          *)
ListingChoices ==
    UNION {[S -> Statuses] : S \in SUBSET {T1, FileName(File(H1, ".pdf", 1))}}

NoCounts == [creates |-> 0, success_count |-> 0, skipped_count |-> 0, failed |-> 0]

InitUploads ==
    /\ catalog \in CatalogChoices
    /\ catalog_file = "ok"
    /\ \E files \in UploadFileChoices, ex \in ListingChoices, m \in 0..MaxBudget,
          raising \in SUBSET {File(H1, ".pdf", 1)} :
          uploads = [variant |-> 1, i |-> 1, pdf_files |-> files,
                     existing_documents |-> ex, max_upload |-> m, raising |-> raising,
                     counts |-> NoCounts,
                     returned |-> [v \in {} |-> NoCounts]]
    /\ localFiles = {}
    /\ remote = {}
    /\ pc = "uploads"
    /\ args = NoArgs
    /\ snapshot = NoSnapshot
    /\ pdf_files = <<>>
    /\ idx = 1
    /\ success_count = 0
    /\ skipped_count = 0
    /\ failed_files = <<>>
    /\ to_process = <<>>
    /\ delete_count = 0
    /\ exit_code = 0
    /\ calls = <<>>
    /\ nruns = 0
    /\ hist = NoHist
    /\ docs = <<>>
    /\ prepared = NotPrepared
    /\ inventory = NoInventory
    /\ diffs = NoDiffs
    /\ reads = <<>>
    /\ pager = NoPager
    /\ fetch = NoFetch
    /\ download = NoDownload
    /\ evaluated = NotEvaluated

UploadsFrame ==
    UNCHANGED <<syncVars, prepVars, inventory, diffs, catalog_file, reads, pager,
                fetch, download, evaluated>>

(* One iteration of the loop of the variant that is running.               *)
UploadsIteration ==
    /\ uploads.variant <= Len(Variants)
    /\ uploads.i <= Len(uploads.pdf_files)
    /\ ~VariantStops(Variants[uploads.variant], uploads.max_upload,
                     uploads.counts.success_count)
    /\ LET f == uploads.pdf_files[uploads.i]
           c == uploads.counts
       IN uploads' = [uploads EXCEPT
            !.i = @ + 1,
            !.counts =
               IF VariantSkips(Variants[uploads.variant], catalog,
                               uploads.existing_documents, f)
               THEN [c EXCEPT !.skipped_count = @ + 1]
               ELSE IF f \in uploads.raising
               THEN [c EXCEPT !.creates = @ + 1, !.failed = @ + 1]
               ELSE [c EXCEPT !.creates = @ + 1, !.success_count = @ + 1]]
    /\ UploadsFrame

(* The variant returns its counts; the next one is run on the same inputs. *)
UploadsReturn ==
    /\ uploads.variant <= Len(Variants)
    /\ \/ uploads.i > Len(uploads.pdf_files)
       \/ VariantStops(Variants[uploads.variant], uploads.max_upload,
                       uploads.counts.success_count)
    /\ uploads' = [uploads EXCEPT
          !.variant = @ + 1,
          !.i = 1,
          !.counts = NoCounts,
          !.returned = [v \in DOMAIN @ \cup {Variants[uploads.variant]} |->
                           IF v = Variants[uploads.variant] THEN uploads.counts ELSE @[v]]]
    /\ UploadsFrame

NextUploads == UploadsIteration \/ UploadsReturn

SpecUploads == InitUploads /\ [][NextUploads]_vars

AllReturned == uploads.variant > Len(Variants)

(* C30: with max_upload = 0 none of the four variants issues a create      *)
(* call; with the same positive max_upload and the same inputs the four    *)
(* make the same number of successful creates.                             *)
C30_VariantAgreement ==
    AllReturned =>
        /\ uploads.max_upload = 0 =>
              \A v \in DOMAIN uploads.returned : uploads.returned[v].creates = 0
        /\ uploads.max_upload > 0 =>
              \A v, w \in DOMAIN uploads.returned :
                  uploads.returned[v].success_count = uploads.returned[w].success_count

====
